---------------------------- MODULE Spec2Model ----------------------------
(***************************************************************************)
(* The knowledge-graph store of materials_analysis (class KnowledgeGraph)  *)
(* and its similarity and query functions, as a state machine.             *)
(*                                                                         *)
(* Strings the code compares character by character (node ids, edge ids,   *)
(* relationship types, label entries, query terms) are sequences of        *)
(* one-character strings, so that template-literal concatenation,          *)
(* toLowerCase and includes are computed, not assumed.  Urls are only      *)
(* stored and returned and stay TLA+ strings, and so do the titles except  *)
(* under SpecAnswer, where the /query route scores them.                   *)
(*                                                                         *)
(* A JavaScript Map keeps insertion order.  The node table is a sequence   *)
(* of node records (its iteration order decides ties in the queries); the  *)
(* edge table and the adjacency index are functions, since no operation    *)
(* modelled here depends on their order.  new Date().toISOString() is the  *)
(* value Now: no operation reads a timestamp back.                         *)
(*                                                                         *)
(* The snapshot file is the JSON value it holds, with the Maps and Sets    *)
(* already turned into the arrays saveGraph writes; the labeller's store   *)
(* is the list of its tagged articles, newest first.                       *)
(***************************************************************************)
EXTENDS Integers, Sequences, FiniteSets, TLC

\* the graph service's three tables, the snapshot file on its disk, the
\* labeller's store of tagged articles, the scraper service's one
\* ArticleScraper with the requests running through it, the frontend's
\* /query request in flight, and the last call
VARIABLES nodes, edges, nodeEdges, file, tagged, scraper, pending, call

vars == <<nodes, edges, nodeEdges, file, tagged, scraper, pending, call>>

(***************************************************************************)
(* Bounds of the model.                                                    *)
(***************************************************************************)
\* the edge table holds at most this many edges
MaxEdges == 2
\* the node table holds at most this many nodes under SpecQuery
MaxNodes == 4
\* the ingestion routes fill the node table up to this many nodes
MaxIngest == 7
\* the limit argument of a query ranges over -1 .. MaxLimit
MaxLimit == 2
\* a label list under SpecScore holds at most this many entries
MaxListLen == 2
\* the scraper's clock stops at this many seconds
MaxTime == 16

(***************************************************************************)
(* String primitives.                                                      *)
(***************************************************************************)
\* String.prototype.toLowerCase on one character of the alphabet in use
LowerChar(c) ==
  CASE c = "L" -> "l"
    [] c = "M" -> "m"
    [] c = "S" -> "s"
    [] c = "I" -> "i"
    [] c = "C" -> "c"
    [] OTHER -> c

\* String.prototype.toLowerCase
toLowerCase(s) == [i \in 1..Len(s) |-> LowerChar(s[i])]

\* String.prototype.includes: sub occurs in s as a contiguous substring
includes(s, sub) ==
  \E i \in 0..(Len(s) - Len(sub)) : SubSeq(s, i + 1, i + Len(sub)) = sub

\* slice0 without the truncation
slice0_keepsAll(arr, end) == arr

\* Array.prototype.slice(0, end): a negative end counts from the end
slice0(arr, end) ==
  LET n == Len(arr)
      stop == IF end < 0 THEN (IF n + end < 0 THEN 0 ELSE n + end)
              ELSE (IF end > n THEN n ELSE end)
  IN SubSeq(arr, 1, stop)

\* where x goes in a list sorted by field descending: behind every entry
\* that does not sort after it (the comparator b[field] - a[field] <= 0)
RECURSIVE InsertDesc(_, _, _)
InsertDesc(sorted, x, field) ==
  IF sorted = <<>> THEN <<x>>
  ELSE IF Head(sorted)[field] >= x[field]
       THEN <<Head(sorted)>> \o InsertDesc(Tail(sorted), x, field)
       ELSE <<x>> \o sorted

\* sortDesc without the sort
sortDesc_unsorted(arr, field) == arr

\* Array.prototype.sort((a, b) => b[field] - a[field]): stable, descending
RECURSIVE sortDesc(_, _)
sortDesc(arr, field) ==
  IF arr = <<>> THEN <<>>
  ELSE InsertDesc(sortDesc(SubSeq(arr, 1, Len(arr) - 1), field),
                  arr[Len(arr)], field)

(***************************************************************************)
(* Identifiers.                                                            *)
(***************************************************************************)
\* the only relationship type a caller passes
RELATES_TO == <<"R", "E", "L", "A", "T", "E", "S", "_", "T", "O">>

\* `${fromId}-${relationshipType}-${toId}`
EdgeId(fromId, relationshipType, toId) ==
  fromId \o <<"-">> \o relationshipType \o <<"-">> \o toId

IdA == <<"a">>
IdB == <<"b">>
\* an article id that itself holds the separator and a type
IdARA == IdA \o <<"-">> \o RELATES_TO \o <<"-">> \o IdA

NoId == <<>>
Now == "now"

(***************************************************************************)
(* Label lists and the similarity score.                                   *)
(***************************************************************************)
\* labels.f || []
Field(labels, f) == IF f \in DOMAIN labels THEN labels[f] ELSE <<>>

\* const set1 = new Set(arr1.map(lower)); arr2.filter(item => set1.has(lower(item)))
findSharedItems(arr1, arr2) ==
  LET set1 == {toLowerCase(arr1[i]) : i \in DOMAIN arr1}
  IN SelectSeq(arr2, LAMBDA item : toLowerCase(item) \in set1)

\* the entities block of calculateSimilarity: skipped unless both sides
\* have an entities record
EntityScore(l1, l2) ==
  IF "entities" \in DOMAIN l1 /\ "entities" \in DOMAIN l2
  THEN Len(findSharedItems(Field(l1.entities, "people"),
                           Field(l2.entities, "people"))) * 2
     + Len(findSharedItems(Field(l1.entities, "organizations"),
                           Field(l2.entities, "organizations"))) * 2
  ELSE 0

calculateSimilarity(node1, node2) ==
    Len(findSharedItems(Field(node1.labels, "categories"),
                        Field(node2.labels, "categories"))) * 3
  + Len(findSharedItems(Field(node1.labels, "topics"),
                        Field(node2.labels, "topics"))) * 2
  + Len(findSharedItems(Field(node1.labels, "keywords"),
                        Field(node2.labels, "keywords"))) * 1
  + EntityScore(node1.labels, node2.labels)

(***************************************************************************)
(* The node table.                                                         *)
(***************************************************************************)
NodeIds(ns) == {ns[i].id : i \in DOMAIN ns}

\* this.nodes.get(id), for an id the table holds
NodeOf(ns, id) == ns[CHOOSE i \in DOMAIN ns : ns[i].id = id]

\* this.nodes.set(id, data): an existing key keeps its place
NodesSet(ns, data) ==
  IF data.id \in NodeIds(ns)
  THEN [i \in DOMAIN ns |-> IF ns[i].id = data.id THEN data ELSE ns[i]]
  ELSE Append(ns, data)

\* nodeData of addArticleNode
NodeData(article) ==
  [id |-> article.id, title |-> article.title, url |-> article.url,
   labels |-> IF "labels" \in DOMAIN article THEN article.labels
              ELSE [x \in {} |-> <<>>],
   addedAt |-> Now]

\* EnsureAdjacency without the has() test: a fresh set on every add
EnsureAdjacency_alwaysFresh(ne, id) ==
  [k \in DOMAIN ne \cup {id} |-> IF k = id THEN {} ELSE ne[k]]

\* if (!this.nodeEdges.has(id)) this.nodeEdges.set(id, new Set())
EnsureAdjacency(ne, id) ==
  IF id \in DOMAIN ne THEN ne
  ELSE [k \in DOMAIN ne \cup {id} |-> IF k = id THEN {} ELSE ne[k]]

(***************************************************************************)
(* The edge table.                                                         *)
(***************************************************************************)
\* EndpointsExist testing the source endpoint only
EndpointsExist_fromOnly(ns, fromId, toId) == fromId \in NodeIds(ns)

\* the guard of addRelationship: both endpoints are in the node table
EndpointsExist(ns, fromId, toId) ==
  fromId \in NodeIds(ns) /\ toId \in NodeIds(ns)

\* { id, from, to, type, ...metadata, createdAt }: a later key replaces an
\* earlier one, so metadata replaces id, from, to, type and not createdAt
EdgeRecord(edgeId, fromId, toId, relationshipType, metadata) ==
  LET base == [id |-> edgeId, from |-> fromId, to |-> toId,
               type |-> relationshipType]
      keys == DOMAIN base \cup DOMAIN metadata \cup {"createdAt"}
  IN [k \in keys |->
        IF k = "createdAt" THEN Now
        ELSE IF k \in DOMAIN metadata THEN metadata[k]
        ELSE base[k]]

\* EdgesSet that keeps an edge already stored under the id
EdgesSet_keepsFirst(es, edgeId, edge) ==
  [k \in DOMAIN es \cup {edgeId} |-> IF k \in DOMAIN es THEN es[k] ELSE edge]

\* this.edges.set(edgeId, edge)
EdgesSet(es, edgeId, edge) ==
  [k \in DOMAIN es \cup {edgeId} |-> IF k = edgeId THEN edge ELSE es[k]]

\* this.nodeEdges.get(id).add(edgeId)
AdjacencyAdd(ne, id, edgeId) ==
  [ne EXCEPT ![id] = @ \cup {edgeId}]

EmptyMap == [x \in {} |-> {}]
NoMeta == [x \in {} |-> 0]

\* no snapshot file on the disk
NoFile == [exists |-> FALSE, readable |-> FALSE, parses |-> FALSE, json |-> <<>>]

\* config.requestDelay and the step of the retry back-off, in seconds, and
\* config.maxRetries
requestDelay == 2
retryDelay == 2
maxRetries == 3

\* the requests that share the scraper service's one ArticleScraper
Requests == {1, 2}

\* a request the scraper routes have not received yet
NoRequest ==
  [pc |-> "idle", batch |-> FALSE, urls |-> <<>>, i |-> 0, retries |-> 0,
   attempts |-> 0, wake |-> 0, results |-> <<>>]

\* new ArticleScraper(): lastRequestTime = 0, no page fetched yet; the
\* clock (Date.now(), in seconds) is far from the epoch, so that the first
\* fetch does not wait
NewScraper ==
  [now |-> requestDelay, lastRequestTime |-> 0, spacing |-> requestDelay,
   requests |-> [p \in Requests |-> NoRequest]]

\* the three retrieval strategies of the /query route, in array order
Strategies == <<"topic", "keyword", "recency">>

\* no /query request in flight
NoPending ==
  [active |-> FALSE, query |-> <<>>, maxSources |-> 0,
   status |-> [k \in 1..3 |-> "none"], results |-> [k \in 1..3 |-> <<>>],
   order |-> <<>>]

\* the record of the last call: its arguments, whether its key was already
\* stored (for clear: whether the graph held a node and an edge), the error
\* it threw and the value it returned (as a list)
Call(op, id, toId, type, meta, term, limit, existed, err, out) ==
  [op |-> op, id |-> id, toId |-> toId, type |-> type, meta |-> meta,
   term |-> term, limit |-> limit, existed |-> existed, err |-> err,
   out |-> out]

(***************************************************************************)
(* The queries.                                                            *)
(***************************************************************************)
\* getRelationships: the edges under the node's adjacency set, restricted
\* to a type when one is given (null and "" are both falsy); the list is
\* read as the set of its entries
getRelationships(es, ne, articleId, relationshipType) ==
  LET edgeIds == IF articleId \in DOMAIN ne THEN ne[articleId] ELSE {}
  IN {es[e] : e \in {x \in edgeIds :
                       relationshipType = <<>> \/ es[x].type = relationshipType}}

\* the loop of findSimilarArticles over this.nodes.entries(), in table order
RECURSIVE Similarities(_, _, _)
Similarities(ns, sourceNode, articleId) ==
  IF ns = <<>> THEN <<>>
  ELSE LET node == Head(ns)
           similarity == calculateSimilarity(sourceNode, node)
           rest == Similarities(Tail(ns), sourceNode, articleId)
       IN IF node.id = articleId THEN rest
          ELSE IF similarity > 0
               THEN <<[articleId |-> node.id, title |-> node.title,
                       similarity |-> similarity,
                       sharedTopics |->
                         findSharedItems(Field(sourceNode.labels, "topics"),
                                         Field(node.labels, "topics")),
                       sharedKeywords |->
                         findSharedItems(Field(sourceNode.labels, "keywords"),
                                         Field(node.labels, "keywords"))]>>
                    \o rest
               ELSE rest

findSimilarArticles(ns, articleId, limit) ==
  IF articleId \notin NodeIds(ns) THEN <<>>
  ELSE slice0(sortDesc(Similarities(ns, NodeOf(ns, articleId), articleId),
                       "similarity"), limit)

\* topics.some(t => t.toLowerCase().includes(topicLower))
SomeIncludes(arr, termLower) ==
  \E i \in DOMAIN arr : includes(toLowerCase(arr[i]), termLower)

\* the loop of queryByTopic over this.nodes.values(), in table order
RECURSIVE TopicResults(_, _)
TopicResults(ns, topicLower) ==
  IF ns = <<>> THEN <<>>
  ELSE LET node == Head(ns)
           topics == Field(node.labels, "topics")
           categories == Field(node.labels, "categories")
           hasMatchingTopic == SomeIncludes(topics, topicLower)
           hasMatchingCategory == SomeIncludes(categories, topicLower)
           rest == TopicResults(Tail(ns), topicLower)
       IN IF hasMatchingTopic \/ hasMatchingCategory
          THEN <<[articleId |-> node.id, title |-> node.title, url |-> node.url,
                  relevance |-> IF hasMatchingTopic THEN 2 ELSE 1,
                  matchedTopics |->
                    SelectSeq(topics,
                      LAMBDA t : includes(toLowerCase(t), topicLower))]>>
               \o rest
          ELSE rest

queryByTopic(ns, topic, limit) ==
  slice0(sortDesc(TopicResults(ns, toLowerCase(topic)), "relevance"), limit)

(***************************************************************************)
(* The statistics.  A counting object is a function from its keys to the   *)
(* counts; the object without keys is the empty function.                  *)
(***************************************************************************)
\* getRelationshipTypes: the number of stored edges per edge.type
getRelationshipTypes(es) ==
  [t \in {es[e].type : e \in DOMAIN es} |->
     Cardinality({e \in DOMAIN es : es[e].type = t})]

\* aggregateByField: one count per entry of a node's categories list, or
\* one per node that has a sentiment
aggregateByField(ns, field) ==
  IF field = "categories"
  THEN LET hits == UNION {{<<i, j>> : j \in DOMAIN Field(ns[i].labels, "categories")}
                            : i \in DOMAIN ns}
           cat(h) == Field(ns[h[1]].labels, "categories")[h[2]]
       IN [c \in {cat(h) : h \in hits} |->
             Cardinality({h \in hits : cat(h) = c})]
  ELSE IF field = "sentiment"
  THEN LET has == {i \in DOMAIN ns : "sentiment" \in DOMAIN ns[i].labels}
       IN [v \in {ns[i].labels.sentiment : i \in has} |->
             Cardinality({i \in has : ns[i].labels.sentiment = v})]
  ELSE [x \in {} |-> 0]

getGraphStats(ns, es) ==
  [totalNodes |-> Len(ns),
   totalEdges |-> Cardinality(DOMAIN es),
   relationshipTypes |-> getRelationshipTypes(es),
   nodesByCategory |-> aggregateByField(ns, "categories"),
   nodesBySentiment |-> aggregateByField(ns, "sentiment")]

(***************************************************************************)
(* Inputs.                                                                 *)
(***************************************************************************)
Li == <<"L", "i">>
li == <<"l", "i">>
Mi == <<"M", "i">>
Su == <<"S", "u">>
su == <<"s", "u">>

\* the articles the store is fed under Spec: two versions of article a,
\* and one article whose id holds the separator
StoreArticles ==
  { [id |-> IdA, title |-> "Lithium", url |-> "u/a",
     labels |-> [topics |-> <<Li, Su>>, categories |-> <<Mi>>,
                 sentiment |-> "positive"]],
    [id |-> IdA, title |-> "Lithium (rev)", url |-> "u/a",
     labels |-> [topics |-> <<li>>]],
    [id |-> IdARA, title |-> "Mining", url |-> "u/ara",
     labels |-> [topics |-> <<li, Mi>>, categories |-> <<Mi>>]] }

\* ids passed to the operations under Spec; b is never added as a node
ArgIds == {IdA, IdARA, IdB}

\* metadata records: the route's shape, twice, and a record with a key
\* the edge has too
MetaPool ==
  { [strength |-> 4],
    [strength |-> 5, sharedTopics |-> <<li>>],
    [strength |-> 4, from |-> IdB] }

IdP == <<"p">>
IdQ == <<"q">>
IdS == <<"s">>
IdT == <<"t">>
IdU == <<"u">>

\* the articles the store is fed under SpecQuery; U has no labels
QueryArticles ==
  { [id |-> IdP, title |-> "P", url |-> "u/p",
     labels |-> [topics |-> <<Li, Su>>, categories |-> <<Mi>>]],
    [id |-> IdQ, title |-> "Q", url |-> "u/q",
     labels |-> [topics |-> <<li, Mi>>]],
    [id |-> IdS, title |-> "S", url |-> "u/s",
     labels |-> [topics |-> <<su>>, categories |-> <<>>]],
    [id |-> IdT, title |-> "T", url |-> "u/t",
     labels |-> [categories |-> <<Li, <<"m", "i">>>>]],
    [id |-> IdU, title |-> "U", url |-> "u/u"] }

QueryIds == {IdP, IdQ, IdS, IdT, IdU}

Terms == {li, <<"I">>, Mi}
OtherType == <<"S">>
TypeFilters == {<<>>, RELATES_TO, OtherType}
Limits == (0 - 1)..MaxLimit

(***************************************************************************)
(* Operations.                                                             *)
(***************************************************************************)
Init ==
  /\ nodes = <<>>
  /\ edges = EmptyMap
  /\ nodeEdges = EmptyMap
  /\ file = NoFile
  /\ tagged = <<>>
  /\ scraper = NewScraper
  /\ pending = NoPending
  /\ call = Call("new", NoId, NoId, NoId, NoMeta, NoId, 0, FALSE, "none", <<>>)

AddArticleNode(article) ==
  LET nodeData == NodeData(article) IN
  /\ article.id \in NodeIds(nodes) \/ Len(nodes) < MaxNodes
  /\ nodes' = NodesSet(nodes, nodeData)
  /\ nodeEdges' = EnsureAdjacency(nodeEdges, article.id)
  /\ UNCHANGED <<edges, file, tagged, scraper, pending>>
  /\ call' = Call("addArticleNode", article.id, NoId, NoId, NoMeta, NoId, 0,
                  article.id \in NodeIds(nodes), "none", <<nodeData>>)

\* addRelationship.  An adjacency set that is missing when it is added to
\* is a TypeError thrown after the writes before it.
AddRelationship(fromId, toId, relationshipType, metadata) ==
  LET edgeId == EdgeId(fromId, relationshipType, toId)
      edge == EdgeRecord(edgeId, fromId, toId, relationshipType, metadata)
      rec(err, out) == Call("addRelationship", fromId, toId, relationshipType,
                            metadata, NoId, 0, edgeId \in DOMAIN edges, err, out)
  IN
  /\ UNCHANGED <<file, tagged, scraper, pending>>
  /\ IF ~EndpointsExist(nodes, fromId, toId)
       THEN /\ UNCHANGED <<nodes, edges, nodeEdges>>
            /\ call' = rec("NodeNotFound", <<>>)
       ELSE /\ edgeId \in DOMAIN edges \/ Cardinality(DOMAIN edges) < MaxEdges
            /\ UNCHANGED nodes
            /\ edges' = EdgesSet(edges, edgeId, edge)
            /\ IF fromId \notin DOMAIN nodeEdges
               THEN /\ UNCHANGED nodeEdges
                    /\ call' = rec("TypeError", <<>>)
               ELSE IF toId \notin DOMAIN nodeEdges
               THEN /\ nodeEdges' = AdjacencyAdd(nodeEdges, fromId, edgeId)
                    /\ call' = rec("TypeError", <<>>)
               ELSE /\ nodeEdges' = AdjacencyAdd(AdjacencyAdd(nodeEdges, fromId, edgeId),
                                                 toId, edgeId)
                    /\ call' = rec("none", <<edge>>)

\* Clear leaving the adjacency index as it is
Clear_keepsAdjacency ==
  /\ nodes' = <<>>
  /\ edges' = EmptyMap
  /\ UNCHANGED <<nodeEdges, file, tagged, scraper, pending>>
  /\ call' = Call("clear", NoId, NoId, NoId, NoMeta, NoId, 0,
                  nodes # <<>> /\ edges # EmptyMap, "none", <<>>)

\* clear: three synchronous Map.clear() calls, no await between them
Clear ==
  /\ nodes' = <<>>
  /\ edges' = EmptyMap
  /\ nodeEdges' = EmptyMap
  /\ UNCHANGED <<file, tagged, scraper, pending>>
  /\ call' = Call("clear", NoId, NoId, NoId, NoMeta, NoId, 0,
                  nodes # <<>> /\ edges # EmptyMap, "none", <<>>)

GetGraphStats ==
  /\ UNCHANGED <<nodes, edges, nodeEdges, file, tagged, scraper, pending>>
  /\ call' = Call("getGraphStats", NoId, NoId, NoId, NoMeta, NoId, 0, FALSE,
                  "none", <<getGraphStats(nodes, edges)>>)

GetRelationships(articleId, relationshipType) ==
  /\ UNCHANGED <<nodes, edges, nodeEdges, file, tagged, scraper, pending>>
  /\ call' = Call("getRelationships", articleId, NoId, relationshipType, NoMeta,
                  NoId, 0, articleId \in NodeIds(nodes), "none",
                  getRelationships(edges, nodeEdges, articleId, relationshipType))

FindSimilarArticles(articleId, limit) ==
  /\ UNCHANGED <<nodes, edges, nodeEdges, file, tagged, scraper, pending>>
  /\ call' = Call("findSimilarArticles", articleId, NoId, NoId, NoMeta, NoId,
                  limit, articleId \in NodeIds(nodes), "none",
                  findSimilarArticles(nodes, articleId, limit))

QueryByTopic(topic, limit) ==
  /\ UNCHANGED <<nodes, edges, nodeEdges, file, tagged, scraper, pending>>
  /\ call' = Call("queryByTopic", NoId, NoId, NoId, NoMeta, topic, limit, FALSE,
                  "none", queryByTopic(nodes, topic, limit))

\* the store under every operation, over two article ids
Next ==
  \/ \E article \in StoreArticles : AddArticleNode(article)
  \/ \E fromId \in ArgIds, toId \in ArgIds, metadata \in MetaPool :
       AddRelationship(fromId, toId, RELATES_TO, metadata)
  \/ Clear
  \/ \E articleId \in ArgIds, relationshipType \in TypeFilters :
       GetRelationships(articleId, relationshipType)
  \/ \E articleId \in ArgIds, limit \in Limits :
       FindSimilarArticles(articleId, limit)
  \/ \E topic \in Terms, limit \in Limits : QueryByTopic(topic, limit)
  \/ GetGraphStats

Spec == Init /\ [][Next]_vars

\* the node table and its queries, over five articles and no edges
NextQuery ==
  \/ \E article \in QueryArticles : AddArticleNode(article)
  \/ Clear
  \/ \E articleId \in QueryIds, limit \in Limits :
       FindSimilarArticles(articleId, limit)
  \/ \E topic \in Terms, limit \in Limits : QueryByTopic(topic, limit)

SpecQuery == Init /\ [][NextQuery]_vars

(***************************************************************************)
(* The similarity score on its own: two nodes x and y whose label lists    *)
(* range over every list of at most MaxListLen words, duplicates and       *)
(* entries that differ in case only included.                              *)
(***************************************************************************)
Words == {Li, li, Mi}
Lists(n) == UNION {[1..k -> Words] : k \in 0..n}

ScoreLabels ==
  {[categories |-> c, topics |-> t] :
     c \in {<<>>, <<Mi>>}, t \in Lists(MaxListLen)}
  \cup
  {[keywords |-> k, entities |-> [people |-> q, organizations |-> o]] :
     k \in {<<>>, <<li>>}, q \in Lists(1), o \in {<<>>, <<Mi>>}}

IdX == <<"x">>
IdY == <<"y">>

ScoreArticles ==
  {[id |-> i, title |-> "T", url |-> "u", labels |-> l] :
     i \in {IdX, IdY}, l \in ScoreLabels}

\* calculateSimilarity(node1, node2) on two nodes of the table
CalculateSimilarity(id1, id2) ==
  /\ id1 \in NodeIds(nodes)
  /\ id2 \in NodeIds(nodes)
  /\ UNCHANGED <<nodes, edges, nodeEdges, file, tagged, scraper, pending>>
  /\ call' = Call("calculateSimilarity", id1, id2, NoId, NoMeta, NoId, 0, TRUE,
                  "none",
                  <<calculateSimilarity(NodeOf(nodes, id1), NodeOf(nodes, id2))>>)

NextScore ==
  \/ \E article \in ScoreArticles : AddArticleNode(article)
  \/ \E id1 \in {IdX, IdY}, id2 \in {IdX, IdY} : CalculateSimilarity(id1, id2)

SpecScore == Init /\ [][NextScore]_vars

(***************************************************************************)
(* Persistence (GraphPersistence).  saveGraph turns the node table, the    *)
(* edge table and the adjacency index into arrays of [key, value] entries  *)
(* and writes them as JSON; loadGraph parses the file and builds Maps and  *)
(* Sets from the entries.  Every value of the graph came out of a JSON     *)
(* body or is a string or number the store built, so JSON.stringify and    *)
(* JSON.parse keep it as it is.  The model keeps no insertion order for    *)
(* the edge table and the adjacency sets: a save may write them in any     *)
(* order.                                                                  *)
(***************************************************************************)
\* the arrays that list the members of S once each
Orders(S) ==
  {o \in [1..Cardinality(S) -> S] : {o[i] : i \in 1..Cardinality(S)} = S}

\* for every key of the adjacency index, an order of its set
SetOrders(ne) ==
  {f \in [DOMAIN ne -> UNION {Orders(ne[k]) : k \in DOMAIN ne}] :
     \A k \in DOMAIN ne : f[k] \in Orders(ne[k])}

\* graphData of saveGraph
GraphData(ns, es, ne, edgeOrder, keyOrder, setOrder) ==
  [version |-> "1.0",
   savedAt |-> Now,
   nodes |-> [i \in DOMAIN ns |-> <<ns[i].id, ns[i]>>],
   edges |-> [i \in DOMAIN edgeOrder |-> <<edgeOrder[i], es[edgeOrder[i]]>>],
   nodeEdges |-> [i \in DOMAIN keyOrder |->
                    <<keyOrder[i], setOrder[keyOrder[i]]>>],
   stats |-> [nodeCount |-> Len(ns), edgeCount |-> Cardinality(DOMAIN es)]]

\* a file that holds the JSON text of a value
FileOf(json) ==
  [exists |-> TRUE, readable |-> TRUE, parses |-> TRUE, json |-> json]

\* a file cut short: its text is no JSON
Truncated ==
  [exists |-> TRUE, readable |-> TRUE, parses |-> FALSE, json |-> <<>>]

\* new Map(graphData.nodes) as a node table: entries in order, a key met
\* again keeps its place and takes the later value (every key is its
\* node's id)
RECURSIVE NodesFromEntries(_)
NodesFromEntries(entries) ==
  IF entries = <<>> THEN <<>>
  ELSE NodesSet(NodesFromEntries(SubSeq(entries, 1, Len(entries) - 1)),
                entries[Len(entries)][2])

\* the index of the last entry under a key
LastEntry(entries, k) ==
  CHOOSE i \in DOMAIN entries :
    /\ entries[i][1] = k
    /\ \A j \in DOMAIN entries : entries[j][1] = k => j <= i

\* MapFromEntries taking the first entry under a key
MapFromEntries_firstKeyOnly(entries) ==
  [k \in {entries[i][1] : i \in DOMAIN entries \cap {1}} |-> entries[1][2]]

\* new Map(entries)
MapFromEntries(entries) ==
  [k \in {entries[i][1] : i \in DOMAIN entries} |->
     entries[LastEntry(entries, k)][2]]

\* new Set(array)
SetFromArray(arr) == {arr[i] : i \in DOMAIN arr}

\* loadGraph: the value returned, as a list; null is the empty list.  A
\* missing file, a failing read and a failing parse end in null; so does
\* the TypeError of graphData.nodeEdges.map on a value without nodeEdges.
\* new Map(undefined) is the empty Map.
loadGraph(f) ==
  IF ~f.exists \/ ~f.readable \/ ~f.parses THEN <<>>
  ELSE LET graphData == f.json IN
       IF "nodeEdges" \notin DOMAIN graphData THEN <<>>
       ELSE <<[nodes |-> IF "nodes" \in DOMAIN graphData
                         THEN NodesFromEntries(graphData.nodes) ELSE <<>>,
               edges |-> IF "edges" \in DOMAIN graphData
                         THEN MapFromEntries(graphData.edges) ELSE EmptyMap,
               nodeEdges |->
                 LET m == MapFromEntries(graphData.nodeEdges)
                 IN [k \in DOMAIN m |-> SetFromArray(m[k])]]>>

\* saveGraph on the three tables.  A failing write (or stringify) is caught
\* and answered with false; fs.writeFile truncates the file before it
\* writes, so a failed write leaves the old file or a file cut short.
SaveGraph(ok, cut) ==
  /\ UNCHANGED <<nodes, edges, nodeEdges, tagged, scraper, pending>>
  /\ IF ok
     THEN \E edgeOrder \in Orders(DOMAIN edges),
             keyOrder \in Orders(DOMAIN nodeEdges),
             setOrder \in SetOrders(nodeEdges) :
            file' = FileOf(GraphData(nodes, edges, nodeEdges,
                                     edgeOrder, keyOrder, setOrder))
     ELSE file' = IF cut THEN Truncated ELSE file
  /\ call' = Call("saveGraph", NoId, NoId, NoId, NoMeta, NoId, 0, file.exists,
                  "none", <<ok>>)

\* loadGraph: every path ends in a return, none in a throw
LoadGraph ==
  /\ UNCHANGED <<nodes, edges, nodeEdges, file, tagged, scraper, pending>>
  /\ call' = Call("loadGraph", NoId, NoId, NoId, NoMeta, NoId, 0, file.exists,
                  "none", loadGraph(file))

\* deleteGraph: true when the file was unlinked, false when there was none
\* or the unlink failed
DeleteGraph(ok) ==
  /\ UNCHANGED <<nodes, edges, nodeEdges, tagged, scraper, pending>>
  /\ file' = IF ok /\ file.exists THEN NoFile ELSE file
  /\ call' = Call("deleteGraph", NoId, NoId, NoId, NoMeta, NoId, 0, file.exists,
                  "none", <<ok /\ file.exists>>)

\* the fields of graphData that loadGraph reads
SnapshotFields == {"nodes", "edges", "nodeEdges"}

\* what happens to the file outside the service: it becomes unreadable,
\* it is cut short, or it is replaced by JSON that lacks one more field
DamageFile(how) ==
  /\ file.exists
  /\ UNCHANGED <<nodes, edges, nodeEdges, tagged, scraper, pending>>
  /\ file' = IF how = "unreadable" THEN [file EXCEPT !.readable = FALSE]
             ELSE IF how = "truncated" THEN Truncated
             ELSE FileOf([k \in DOMAIN file.json \ {how} |-> file.json[k]])
  /\ how \in SnapshotFields => file.parses /\ how \in DOMAIN file.json
  /\ file' # file
  /\ call' = Call("damageFile", NoId, NoId, NoId, NoMeta, NoId, 0, TRUE,
                  "none", <<>>)

\* the articles and the metadata the store is fed under SpecPersist
PersistArticles == {a \in StoreArticles : a.title # "Lithium (rev)"}
PersistMeta == [strength |-> 5, sharedTopics |-> <<li>>]

\* the store and its snapshot file
NextPersist ==
  \/ \E article \in PersistArticles : AddArticleNode(article)
  \/ \E toId \in {IdA, IdARA} :
       AddRelationship(IdA, toId, RELATES_TO, PersistMeta)
  \/ Clear
  \/ \E ok \in BOOLEAN, cut \in BOOLEAN : SaveGraph(ok, cut)
  \/ LoadGraph
  \/ \E ok \in BOOLEAN : DeleteGraph(ok)
  \/ \E how \in {"unreadable", "truncated"} \cup SnapshotFields :
       DamageFile(how)

SpecPersist == Init /\ [][NextPersist]_vars

(***************************************************************************)
(* The frontend's /query route (the retrieval and ranking of its second    *)
(* version).  Titles, summaries and queries are sequences of characters    *)
(* here, since the route lowercases and searches them.                     *)
(***************************************************************************)
\* the characters \w matches
WordChars ==
  { "a", "b", "c", "d", "e", "f", "g", "h", "i", "j", "k", "l", "m", "n", "o",
    "p", "q", "r", "s", "t", "u", "v", "w", "x", "y", "z",
    "A", "B", "C", "D", "E", "F", "G", "H", "I", "J", "K", "L", "M", "N", "O",
    "P", "Q", "R", "S", "T", "U", "V", "W", "X", "Y", "Z",
    "0", "1", "2", "3", "4", "5", "6", "7", "8", "9", "_" }

Sp == <<" ">>

\* replace(/[^\w\s]/g, ' ')
ReplaceNonWord(s) ==
  [i \in 1..Len(s) |-> IF s[i] \in WordChars \/ s[i] = " " THEN s[i] ELSE " "]

\* the first index from i on that holds no space, or Len(s) + 1
RECURSIVE SkipSpaces(_, _)
SkipSpaces(s, i) ==
  IF i > Len(s) \/ s[i] # " " THEN i ELSE SkipSpaces(s, i + 1)

\* split(/\s+/) from index i on, cur being the piece read so far: a run of
\* spaces ends a piece, also an empty one at either end of the string
RECURSIVE SplitFrom(_, _, _)
SplitFrom(s, i, cur) ==
  IF i > Len(s) THEN <<cur>>
  ELSE IF s[i] = " "
       THEN <<cur>> \o SplitFrom(s, SkipSpaces(s, i), <<>>)
       ELSE SplitFrom(s, i + 1, Append(cur, s[i]))

split(s) == SplitFrom(s, 1, <<>>)

stopWords ==
  { <<"a">>, <<"a", "n">>, <<"a", "n", "d">>, <<"a", "r", "e">>, <<"a", "s">>,
    <<"a", "t">>, <<"b", "e">>, <<"b", "y">>, <<"f", "o", "r">>,
    <<"f", "r", "o", "m">>, <<"h", "a", "s">>, <<"h", "e">>, <<"i", "n">>,
    <<"i", "s">>, <<"i", "t">>, <<"i", "t", "s">>, <<"o", "f">>, <<"o", "n">>,
    <<"t", "h", "a", "t">>, <<"t", "h", "e">>, <<"t", "o">>,
    <<"w", "a", "s">>, <<"w", "i", "l", "l">>, <<"w", "i", "t", "h">>,
    <<"w", "h", "a", "t">>, <<"w", "h", "e", "n">>,
    <<"w", "h", "e", "r", "e">>, <<"w", "h", "o">>, <<"h", "o", "w">>,
    <<"a", "b", "o", "u", "t">>, <<"c", "a", "n">>,
    <<"c", "o", "u", "l", "d">>, <<"s", "h", "o", "u", "l", "d">> }

\* .slice(0, 10) of extractKeywords
KeywordCap == 10

extractKeywords(query) ==
  slice0(SelectSeq(split(ReplaceNonWord(toLowerCase(query))),
                   LAMBDA word : Len(word) > 2 /\ word \notin stopWords),
         KeywordCap)

\* keywords.join(' ')
RECURSIVE join(_)
join(words) ==
  IF words = <<>> THEN <<>>
  ELSE IF Len(words) = 1 THEN words[1]
  ELSE words[1] \o Sp \o join(Tail(words))

\* the loop of queryByKeyword over this.nodes.values(), in table order
RECURSIVE KeywordResults(_, _)
KeywordResults(ns, keywordLower) ==
  IF ns = <<>> THEN <<>>
  ELSE LET node == Head(ns)
           matchingKeywords ==
             SelectSeq(Field(node.labels, "keywords"),
                       LAMBDA k : includes(toLowerCase(k), keywordLower))
           rest == KeywordResults(Tail(ns), keywordLower)
       IN IF Len(matchingKeywords) > 0
          THEN <<[articleId |-> node.id, title |-> node.title, url |-> node.url,
                  matchCount |-> Len(matchingKeywords),
                  matchedKeywords |-> matchingKeywords]>> \o rest
          ELSE rest

queryByKeyword(ns, keyword, limit) ==
  slice0(sortDesc(KeywordResults(ns, toLowerCase(keyword)), "matchCount"), limit)

\* params: { limit: 10 } of the three retrieval requests
StrategyLimit == 10

\* a settled request: fulfilled with the articles of its body, or rejected
Fulfilled(articles) == [status |-> "fulfilled", articles |-> articles]
Rejected == [status |-> "rejected", articles |-> <<>>]

\* GET /graph/query/topic: 400 without q, else the results of queryByTopic
TopicStrategy(ns, q, up) ==
  IF ~up \/ q = <<>> THEN Rejected
  ELSE Fulfilled(queryByTopic(ns, q, StrategyLimit))

\* GET /graph/query/keyword: 400 without q, else the results of
\* queryByKeyword
KeywordStrategy(ns, q, up) ==
  IF ~up \/ q = <<>> THEN Rejected
  ELSE Fulfilled(queryByKeyword(ns, q, StrategyLimit))

\* GET /tagged: the newest tagged articles (getAllTaggedArticles(limit, 0))
RecentStrategy(tg, up) ==
  IF ~up THEN Rejected ELSE Fulfilled(slice0(tg, StrategyLimit))

\* the value of a property an object does not have
Undefined == <<"undefined">>

\* article.id
IdOf(article) == IF "id" \in DOMAIN article THEN article.id ELSE Undefined

\* Dedup that pushes no article
Dedup_pushesNone(articles, seenIds) == <<>>

\* the forEach over the articles with seenIds: an article is pushed unless
\* its article.id was seen
RECURSIVE Dedup(_, _)
Dedup(articles, seenIds) ==
  IF articles = <<>> THEN <<>>
  ELSE IF IdOf(Head(articles)) \in seenIds
       THEN Dedup(Tail(articles), seenIds)
       ELSE <<Head(articles)>>
              \o Dedup(Tail(articles), seenIds \cup {IdOf(Head(articles))})

\* the articles of the fulfilled requests, in the order of the requests
RECURSIVE FulfilledArticles(_)
FulfilledArticles(retrievalResults) ==
  IF retrievalResults = <<>> THEN <<>>
  ELSE (IF Head(retrievalResults).status = "fulfilled"
        THEN Head(retrievalResults).articles ELSE <<>>)
       \o FulfilledArticles(Tail(retrievalResults))

\* article.labels?.<field>
LabelsOf(article) ==
  IF "labels" \in DOMAIN article THEN article.labels ELSE [x \in {} |-> <<>>]

\* keywords.forEach(keyword => items.forEach(item => ...)): the number of
\* times an item, lowercased, includes a keyword
RECURSIVE KeywordHits(_, _)
KeywordHits(keywords, items) ==
  IF keywords = <<>> THEN 0
  ELSE Len(SelectSeq(items,
                     LAMBDA item : includes(toLowerCase(item), Head(keywords))))
       + KeywordHits(Tail(keywords), items)

\* RelevanceScore without the title bonus
RelevanceScore_noTitleBonus(query, article) ==
  LET keywords == extractKeywords(query)
      labels == LabelsOf(article)
  IN KeywordHits(keywords, <<article.title>>) * 5
     + KeywordHits(keywords, Field(labels, "topics")) * 3
     + KeywordHits(keywords, Field(labels, "categories")) * 2
     + KeywordHits(keywords, Field(labels, "keywords")) * 1

\* the score rankArticlesByRelevance gives an article
RelevanceScore(query, article) ==
  LET queryLower == toLowerCase(query)
      keywords == extractKeywords(query)
      labels == LabelsOf(article)
  IN (IF includes(toLowerCase(article.title), queryLower) THEN 10 ELSE 0)
     + KeywordHits(keywords, <<article.title>>) * 5
     + KeywordHits(keywords, Field(labels, "topics")) * 3
     + KeywordHits(keywords, Field(labels, "categories")) * 2
     + KeywordHits(keywords, Field(labels, "keywords")) * 1
     + (IF "summary" \in DOMAIN labels
           /\ includes(toLowerCase(labels.summary), queryLower)
        THEN 4 ELSE 0)

\* { ...article, relevanceScore: score }
WithScore(article, score) ==
  [k \in DOMAIN article \cup {"relevanceScore"} |->
     IF k = "relevanceScore" THEN score ELSE article[k]]

rankArticlesByRelevance(query, articles) ==
  sortDesc(SelectSeq([i \in DOMAIN articles |->
                        WithScore(articles[i],
                                  RelevanceScore(query, articles[i]))],
                     LAMBDA article : article.relevanceScore > 0),
           "relevanceScore")

\* an entry of sources; a summary that is missing is null, the empty list
SourceOf(article) ==
  LET labels == LabelsOf(article)
  IN [id |-> IdOf(article), title |-> article.title, url |-> article.url,
      categories |-> Field(labels, "categories"),
      topics |-> Field(labels, "topics"),
      summary |-> Field(labels, "summary"),
      relevanceScore |-> article.relevanceScore]

\* steps 3 to 5 and 7 of the route on the array Promise.allSettled
\* resolves to: the body of its 200 response
aggregate(query, maxSources, retrievalResults) ==
  LET allArticles == Dedup(FulfilledArticles(retrievalResults), {})
      rankedArticles == slice0(rankArticlesByRelevance(query, allArticles),
                               maxSources)
  IN [success |-> TRUE,
      query |-> query,
      sources |-> [i \in DOMAIN rankedArticles |-> SourceOf(rankedArticles[i])],
      metadata |-> [totalArticlesSearched |-> Len(allArticles),
                    sourcesUsed |-> Len(rankedArticles)]]

\* steps 1 to 5 and 7 of the route when its three requests settle at once
answerQuery(ns, tg, query, maxSources, topicUp, keywordUp, recentUp) ==
  LET keywords == extractKeywords(query)
      q == join(keywords)
  IN aggregate(query, maxSources,
               <<TopicStrategy(ns, q, topicUp),
                 KeywordStrategy(ns, q, keywordUp),
                 RecentStrategy(tg, recentUp)>>)

(***************************************************************************)
(* Ingestion: the labeller's store and the graph routes that read it.      *)
(***************************************************************************)
\* findSimilarArticles(articleId, limit = 5)
DefaultSimilarLimit == 5
\* if (similar.similarity > 3)
EdgeThreshold == 3
\* sharedKeywords.slice(0, 3)
SharedKeywordsCap == 3
\* GET /tagged?limit=1000 of the sync route
SyncLimit == 1000

TaggedIds(tg) == {tg[i].id : i \in DOMAIN tg}

\* storage.getTaggedArticle(id), for an id the store holds
TaggedOf(tg, id) == tg[CHOOSE i \in DOMAIN tg : tg[i].id = id]

\* addRelationship that throws for an edge id the edge table holds
addRelationship_rejectsExisting(ns, es, ne, fromId, toId, relationshipType, metadata) ==
  LET edgeId == EdgeId(fromId, relationshipType, toId)
      edge == EdgeRecord(edgeId, fromId, toId, relationshipType, metadata)
  IN IF ~EndpointsExist(ns, fromId, toId)
     THEN [edges |-> es, nodeEdges |-> ne, err |-> "NodeNotFound"]
     ELSE IF edgeId \in DOMAIN es
     THEN [edges |-> es, nodeEdges |-> ne, err |-> "EdgeExists"]
     ELSE [edges |-> EdgesSet(es, edgeId, edge),
           nodeEdges |-> AdjacencyAdd(AdjacencyAdd(ne, fromId, edgeId),
                                      toId, edgeId),
           err |-> "none"]

\* addRelationship on the tables: the tables it leaves and the error it
\* throws
addRelationship(ns, es, ne, fromId, toId, relationshipType, metadata) ==
  LET edgeId == EdgeId(fromId, relationshipType, toId)
      edge == EdgeRecord(edgeId, fromId, toId, relationshipType, metadata)
  IN IF ~EndpointsExist(ns, fromId, toId)
     THEN [edges |-> es, nodeEdges |-> ne, err |-> "NodeNotFound"]
     ELSE IF fromId \notin DOMAIN ne
     THEN [edges |-> EdgesSet(es, edgeId, edge), nodeEdges |-> ne,
           err |-> "TypeError"]
     ELSE IF toId \notin DOMAIN ne
     THEN [edges |-> EdgesSet(es, edgeId, edge),
           nodeEdges |-> AdjacencyAdd(ne, fromId, edgeId), err |-> "TypeError"]
     ELSE [edges |-> EdgesSet(es, edgeId, edge),
           nodeEdges |-> AdjacencyAdd(AdjacencyAdd(ne, fromId, edgeId),
                                      toId, edgeId),
           err |-> "none"]

\* the metadata the routes pass for a similar article
RouteMeta(similar) ==
  [strength |-> similar.similarity,
   sharedTopics |-> similar.sharedTopics,
   sharedKeywords |-> slice0(similar.sharedKeywords, SharedKeywordsCap)]

\* IsSimilarEnough with a threshold of 1
IsSimilarEnough_above1(similar) == similar.similarity > 1

\* the test of the routes before they add an edge
IsSimilarEnough(similar) == similar.similarity > EdgeThreshold

\* for (const similar of similarArticles) of a route, on the tables g: an
\* error ends the loop of the add route (caught is FALSE) and is skipped
\* by the sync route (caught is TRUE), which counts the edges it added
RECURSIVE LinkSimilar(_, _, _, _, _)
LinkSimilar(ns, g, id, similarArticles, caught) ==
  IF similarArticles = <<>> THEN g
  ELSE LET similar == Head(similarArticles)
           r == addRelationship(ns, g.edges, g.nodeEdges, id, similar.articleId,
                                RELATES_TO, RouteMeta(similar))
       IN IF ~IsSimilarEnough(similar)
          THEN LinkSimilar(ns, g, id, Tail(similarArticles), caught)
          ELSE IF r.err # "none" /\ ~caught
          THEN [edges |-> r.edges, nodeEdges |-> r.nodeEdges,
                created |-> g.created, err |-> r.err]
          ELSE LinkSimilar(ns,
                           [edges |-> r.edges, nodeEdges |-> r.nodeEdges,
                            created |-> g.created
                                          + (IF r.err = "none" THEN 1 ELSE 0),
                            err |-> g.err],
                           id, Tail(similarArticles), caught)

\* the labeller's POST /label/:id, from saveTaggedArticle on: the tagged
\* article is written to its file, the newest of the store
SaveTaggedArticle(article) ==
  /\ tagged' = <<article>> \o SelectSeq(tagged, LAMBDA a : a.id # article.id)
  /\ UNCHANGED <<nodes, edges, nodeEdges, file, scraper, pending>>
  /\ call' = Call("saveTaggedArticle", article.id, NoId, NoId, NoMeta, NoId, 0,
                  article.id \in TaggedIds(tagged), "none", <<article>>)

\* POST /graph/add/:id.  After the await of the labeller's answer the
\* handler runs without another await.
GraphAdd(id, up) ==
  LET rec(err, out) == Call("graphAdd", id, NoId, NoId, NoMeta, NoId, 0,
                            id \in NodeIds(nodes), err, out)
      article == TaggedOf(tagged, id)
      node == NodeData(article)
      ns == NodesSet(nodes, node)
      similarArticles == findSimilarArticles(ns, id, DefaultSimilarLimit)
      g == LinkSimilar(ns,
                       [edges |-> edges,
                        nodeEdges |-> EnsureAdjacency(nodeEdges, id),
                        created |-> 0, err |-> "none"],
                       id, similarArticles, FALSE)
  IN
  /\ UNCHANGED <<file, tagged, scraper, pending>>
  /\ IF ~up \/ id \notin TaggedIds(tagged)
     THEN /\ UNCHANGED <<nodes, edges, nodeEdges>>
          /\ call' = rec(IF up THEN "NotFound" ELSE "LabellerDown", <<>>)
     ELSE /\ id \in NodeIds(nodes) \/ Len(nodes) < MaxIngest
          /\ nodes' = ns
          /\ edges' = g.edges
          /\ nodeEdges' = g.nodeEdges
          /\ call' = rec(g.err,
                         IF g.err # "none" THEN <<>>
                         ELSE <<[success |-> TRUE, node |-> node,
                                 relationshipsCreated |->
                                   Len(SelectSeq(similarArticles,
                                                 IsSimilarEnough))]>>)

\* the first loop of the sync route: addArticleNode for every article
RECURSIVE AddAllNodes(_, _)
AddAllNodes(t, articles) ==
  IF articles = <<>> THEN t
  ELSE AddAllNodes([nodes |-> NodesSet(t.nodes, NodeData(Head(articles))),
                    nodeEdges |-> EnsureAdjacency(t.nodeEdges,
                                                  Head(articles).id)],
                   Tail(articles))

\* the second loop of the sync route: the edges of every article
RECURSIVE LinkAll(_, _, _)
LinkAll(ns, g, articles) ==
  IF articles = <<>> THEN g
  ELSE LinkAll(ns,
               LinkSimilar(ns, g, Head(articles).id,
                           findSimilarArticles(ns, Head(articles).id,
                                               DefaultSimilarLimit),
                           TRUE),
               Tail(articles))

\* the sync route stopped after its first loop: the nodes without an edge
SyncTables_nodesOnly(ns, es, ne, tg) ==
  LET articles == slice0(tg, SyncLimit)
      t == AddAllNodes([nodes |-> ns, nodeEdges |-> ne], articles)
  IN [nodes |-> t.nodes, edges |-> es, nodeEdges |-> t.nodeEdges,
      nodesAdded |-> Len(articles), relationshipsCreated |-> 0]

\* the two loops of the sync route on the tables and the labeller's
\* answer: the tables they leave and the counts of the response
SyncTables(ns, es, ne, tg) ==
  LET articles == slice0(tg, SyncLimit)
      t == AddAllNodes([nodes |-> ns, nodeEdges |-> ne], articles)
      g == LinkAll(t.nodes,
                   [edges |-> es, nodeEdges |-> t.nodeEdges,
                    created |-> 0, err |-> "none"],
                   articles)
  IN [nodes |-> t.nodes, edges |-> g.edges, nodeEdges |-> g.nodeEdges,
      nodesAdded |-> Len(articles), relationshipsCreated |-> g.created]

\* POST /graph/sync.  After the await of the labeller's answer the handler
\* runs without another await.
GraphSync(up) ==
  LET rec(err, out) == Call("graphSync", NoId, NoId, NoId, NoMeta, NoId, 0,
                            FALSE, err, out)
      r == SyncTables(nodes, edges, nodeEdges, tagged)
  IN
  /\ UNCHANGED <<file, tagged, scraper, pending>>
  /\ IF ~up
     THEN /\ UNCHANGED <<nodes, edges, nodeEdges>>
          /\ call' = rec("LabellerDown", <<>>)
     ELSE /\ Cardinality(NodeIds(nodes) \cup TaggedIds(tagged)) <= MaxIngest
          /\ nodes' = r.nodes
          /\ edges' = r.edges
          /\ nodeEdges' = r.nodeEdges
          /\ call' = rec("none",
                         <<[success |-> TRUE, nodesAdded |-> r.nodesAdded,
                            relationshipsCreated |-> r.relationshipsCreated]>>)

\* the tagged articles under SpecIngest: p and q share one topic but for
\* its case, p and s share a category and a topic, and p is labelled again
\* with less
IngestArticles ==
  { [id |-> IdP, title |-> "P", url |-> "u/p",
     labels |-> [topics |-> <<Li, Su>>, categories |-> <<Mi>>]],
    [id |-> IdP, title |-> "P", url |-> "u/p",
     labels |-> [topics |-> <<Li>>, categories |-> <<Mi>>]],
    [id |-> IdQ, title |-> "Q", url |-> "u/q",
     labels |-> [topics |-> <<li>>]],
    [id |-> IdS, title |-> "S", url |-> "u/s",
     labels |-> [topics |-> <<su>>, categories |-> <<Mi>>]] }

IngestIds == {IdP, IdQ, IdS, IdT}

\* the labeller's store and the graph it is ingested into
NextIngest ==
  \/ \E article \in IngestArticles : SaveTaggedArticle(article)
  \/ \E id \in IngestIds, up \in BOOLEAN : GraphAdd(id, up)
  \/ \E up \in BOOLEAN : GraphSync(up)
  \/ Clear

SpecIngest == Init /\ [][NextIngest]_vars

(***************************************************************************)
(* The /query route over the graph and the labeller's store.               *)
(***************************************************************************)
Lithium == <<"L", "i", "t", "h", "i", "u", "m">>
lithium == toLowerCase(Lithium)
Supply == <<"S", "u", "p", "p", "l", "y">>
supply == toLowerCase(Supply)
Chain == <<"C", "h", "a", "i", "n">>
chain == toLowerCase(Chain)
Mining == <<"M", "i", "n", "i", "n", "g">>

\* the tagged articles under SpecAnswer: x is titled as the first query,
\* y shares a topic and a keyword with x
AnswerArticles ==
  { [id |-> IdX, title |-> Lithium \o Sp \o Supply \o Sp \o Chain,
     url |-> "u/x",
     labels |-> [topics |-> <<Lithium \o Sp \o supply \o Sp \o chain>>,
                 categories |-> <<Supply>>,
                 keywords |-> <<lithium>>,
                 summary |-> lithium \o Sp \o supply \o Sp \o chain
                               \o Sp \o Mining]],
    [id |-> IdY, title |-> Lithium, url |-> "u/y",
     labels |-> [topics |-> <<Lithium \o Sp \o supply \o Sp \o chain>>,
                 keywords |-> <<lithium>>]] }

AnswerIds == {IdX, IdY}

\* the queries: the title of x in lower case, a word of both titles with a
\* question mark, a stop word and a word of the title of x, and none
Queries ==
  { lithium \o Sp \o supply \o Sp \o chain,
    Lithium \o <<"?">>,
    <<"t", "h", "e">> \o Sp \o supply,
    <<>> }

\* maxSources of the request body: the default of 5 among them
MaxSourcesValues == {0 - 1, 1, 5}

\* POST /query.  The three requests settle in any way; the answer of the
\* language model arrives or its call throws.
AnswerQuery(query, maxSources, topicUp, keywordUp, recentUp, modelUp) ==
  LET rec(err, out) ==
        Call("answerQuery", NoId, NoId, NoId,
             [maxSources |-> maxSources, topicUp |-> topicUp,
              keywordUp |-> keywordUp, recentUp |-> recentUp],
             query, 0, FALSE, err, out)
  IN
  /\ UNCHANGED <<nodes, edges, nodeEdges, file, tagged, scraper, pending>>
  /\ call' = IF query = <<>> THEN rec("QueryRequired", <<>>)
             ELSE IF ~modelUp THEN rec("ModelError", <<>>)
             ELSE rec("none", <<answerQuery(nodes, tagged, query, maxSources,
                                            topicUp, keywordUp, recentUp)>>)

\* the requests: every way the three retrievals can settle for every
\* query and maxSources; a request without a query or with a failing
\* language model is made once, with all retrievals up
AnswerInputs ==
  {i \in [query : Queries, maxSources : MaxSourcesValues, topicUp : BOOLEAN,
          keywordUp : BOOLEAN, recentUp : BOOLEAN, modelUp : BOOLEAN] :
     (i.query = <<>> \/ ~i.modelUp)
       => (i.maxSources = 5 /\ i.topicUp /\ i.keywordUp /\ i.recentUp)}

NextAnswer ==
  \/ \E article \in AnswerArticles : SaveTaggedArticle(article)
  \/ \E id \in AnswerIds, up \in BOOLEAN : GraphAdd(id, up)
  \/ \E i \in AnswerInputs :
       AnswerQuery(i.query, i.maxSources, i.topicUp, i.keywordUp, i.recentUp,
                   i.modelUp)

SpecAnswer == Init /\ [][NextAnswer]_vars

(***************************************************************************)
(* extractKeywords on its own, over queries put together from pieces.      *)
(***************************************************************************)
\* the longest run of "ore " a query starts with
MaxRepeat == 11

\* the pieces a query ends with: a word with capitals and a space, a stop
\* word and a comma, a space, a comma, a word of two letters and a space,
\* a word with an underscore and a digit
Pieces ==
  { <<"S", "i", "c", " ">>, <<"t", "h", "e", ",">>, <<" ">>, <<",">>,
    <<"L", "i", " ">>, <<"a", "_", "1">> }

\* n times "ore "
RECURSIVE Ores(_)
Ores(n) == IF n = 0 THEN <<>> ELSE <<"o", "r", "e", " ">> \o Ores(n - 1)

\* the queries: up to MaxRepeat times "ore ", then up to two pieces
KeywordQueries ==
  {Ores(n) \o t : n \in 0..MaxRepeat,
                  t \in {<<>>} \cup Pieces
                          \cup {p \o q : p \in Pieces, q \in Pieces}}

ExtractKeywords(query) ==
  /\ UNCHANGED <<nodes, edges, nodeEdges, file, tagged, scraper, pending>>
  /\ call' = Call("extractKeywords", NoId, NoId, NoId, NoMeta, query, 0, FALSE,
                  "none", extractKeywords(query))

NextKeywords == \E query \in KeywordQueries : ExtractKeywords(query)

SpecKeywords == Init /\ [][NextKeywords]_vars

(***************************************************************************)
(* Ingestion of an article with more than five similar articles.           *)
(***************************************************************************)
\* an article of the category Mi with the given topics
FanoutArticle(id, title, url, topics) ==
  [id |-> id, title |-> title, url |-> url,
   labels |-> [topics |-> topics, categories |-> <<Mi>>]]

\* the articles in the order the labeller tags them: any two share the
\* category and the topic li (score 5), and p and y share the topic su too
\* (score 7)
FanoutOrder ==
  << FanoutArticle(IdP, "P", "u/p", <<li, su>>),
     FanoutArticle(IdQ, "Q", "u/q", <<li>>),
     FanoutArticle(IdS, "S", "u/s", <<li>>),
     FanoutArticle(IdT, "T", "u/t", <<li>>),
     FanoutArticle(IdU, "U", "u/u", <<li>>),
     FanoutArticle(IdX, "X", "u/x", <<li>>),
     FanoutArticle(IdY, "Y", "u/y", <<li, su>>) >>

\* the labeller tags the next article; the add route is called for p;
\* the sync route is called
NextFanout ==
  \/ /\ Len(tagged) < Len(FanoutOrder)
     /\ SaveTaggedArticle(FanoutOrder[Len(tagged) + 1])
  \/ \E up \in BOOLEAN : GraphAdd(IdP, up)
  \/ \E up \in BOOLEAN : GraphSync(up)

SpecFanout == Init /\ [][NextFanout]_vars

(***************************************************************************)
(* The scraper service.  Its routes share one ArticleScraper; a request    *)
(* runs between its awaits without interruption, and the awaits are the    *)
(* timers of respectfulDelay and of the retry back-off, the robots.txt     *)
(* download and the page download.  Time is Date.now() in seconds.         *)
(***************************************************************************)
\* a url axios can fetch, and a string new URL() rejects
UrlPage == "https://mine.example/a"
UrlBroken == "not a url"

\* the url lists of the /scrape/batch requests
BatchUrls ==
  {<<UrlPage, UrlPage>>, <<UrlPage, UrlBroken>>, <<UrlBroken, UrlPage>>}

\* fetchUrl's catch: if (retries < this.config.maxRetries)
MayRetry(retries) == retries < maxRetries

\* the time between the starts of the last two page fetches when a fetch
\* starts now, as far as it is below requestDelay; lastRequestTime is the
\* start of the fetch before (0 when there was none)
Spacing(lastRequestTime, now) ==
  IF now - lastRequestTime < requestDelay THEN now - lastRequestTime
  ELSE requestDelay

\* respectfulDelay after its wait (or without one) and the axios.get that
\* fetchUrl issues next: lastRequestTime = Date.now(), then the download
\* of the page starts
axiosGet(s, p) ==
  [s EXCEPT !.lastRequestTime = s.now,
            !.spacing = Spacing(s.lastRequestTime, s.now),
            !.requests[p].pc = "fetching",
            !.requests[p].attempts = @ + 1]

\* fetchUrl up to its first await: respectfulDelay reads the clock and
\* lastRequestTime and either sets a timer for the rest of requestDelay or
\* goes on to the download
respectfulDelay(s, p) ==
  LET timeSinceLastRequest == s.now - s.lastRequestTime IN
  IF timeSinceLastRequest < requestDelay
  THEN [s EXCEPT !.requests[p].pc = "delay",
                 !.requests[p].wake =
                    s.now + (requestDelay - timeSinceLastRequest)]
  ELSE axiosGet(s, p)

\* scrapeArticle returns result: scrapeBatch pushes it and scrapes the
\* next url, or returns the results after the last one; the /scrape
\* route has one url
NextUrl(s, p, result) ==
  LET r == s.requests[p]
      results == Append(r.results, result) IN
  IF r.i < Len(r.urls)
  THEN respectfulDelay(
         [s EXCEPT !.requests[p] =
            [r EXCEPT !.results = results, !.i = r.i + 1, !.retries = 0,
                      !.attempts = 0]], p)
  ELSE [s EXCEPT !.requests[p] = [r EXCEPT !.results = results, !.pc = "done"]]

\* POST /scrape: scraper.scrapeArticle(url)
ScrapeArticle(p, url) ==
  /\ scraper.requests[p].pc = "idle"
  /\ scraper' = respectfulDelay(
       [scraper EXCEPT !.requests[p] =
          [NoRequest EXCEPT !.urls = <<url>>, !.i = 1]], p)
  /\ UNCHANGED <<nodes, edges, nodeEdges, file, tagged, pending, call>>

\* POST /scrape/batch: scraper.scrapeBatch(urls) up to the await of
\* checkRobotsTxt; new URL(urls[0]) throws on a string that is no url
ScrapeBatch(p, urls) ==
  /\ scraper.requests[p].pc = "idle"
  /\ scraper' =
       [scraper EXCEPT !.requests[p] =
          [NoRequest EXCEPT !.batch = TRUE, !.urls = urls, !.i = 1,
             !.pc = IF urls[1] = UrlBroken THEN "thrown" ELSE "robots"]]
  /\ UNCHANGED <<nodes, edges, nodeEdges, file, tagged, pending, call>>

\* checkRobotsTxt returns (the text or null): the loop of scrapeBatch
\* starts with the first url
CheckRobotsTxt(p) ==
  /\ scraper.requests[p].pc = "robots"
  /\ scraper' = respectfulDelay(scraper, p)
  /\ UNCHANGED <<nodes, edges, nodeEdges, file, tagged, pending, call>>

\* the timer of respectfulDelay fires
DelayElapsed(p) ==
  /\ scraper.requests[p].pc = "delay"
  /\ scraper.requests[p].wake <= scraper.now
  /\ scraper' = axiosGet(scraper, p)
  /\ UNCHANGED <<nodes, edges, nodeEdges, file, tagged, pending, call>>

\* the axios.get of fetchUrl settles: with the page, or with an error
\* (always so for a string that is no url); after an error fetchUrl sets
\* the back-off timer or throws, and scrapeArticle turns the throw into a
\* failure result
FetchSettled(p, ok) ==
  LET r == scraper.requests[p]
      url == r.urls[r.i] IN
  /\ r.pc = "fetching"
  /\ ok => url = UrlPage
  /\ scraper' =
       IF ok THEN NextUrl(scraper, p, [success |-> TRUE, url |-> url])
       ELSE IF MayRetry(r.retries)
       THEN [scraper EXCEPT !.requests[p].pc = "retry",
               !.requests[p].wake = scraper.now + retryDelay * (r.retries + 1),
               !.requests[p].retries = r.retries + 1]
       ELSE NextUrl(scraper, p, [success |-> FALSE, url |-> url])
  /\ UNCHANGED <<nodes, edges, nodeEdges, file, tagged, pending, call>>

\* the back-off timer fires: return this.fetchUrl(url, retries + 1)
RetryElapsed(p) ==
  /\ scraper.requests[p].pc = "retry"
  /\ scraper.requests[p].wake <= scraper.now
  /\ scraper' = respectfulDelay(scraper, p)
  /\ UNCHANGED <<nodes, edges, nodeEdges, file, tagged, pending, call>>

\* a second passes; a timer that is due fires before the next one does
Tick ==
  /\ scraper.now < MaxTime
  /\ \A p \in Requests :
       scraper.requests[p].pc \in {"delay", "retry"}
         => scraper.requests[p].wake > scraper.now
  /\ scraper' = [scraper EXCEPT !.now = @ + 1]
  /\ UNCHANGED <<nodes, edges, nodeEdges, file, tagged, pending, call>>

NextScrape ==
  \/ \E p \in Requests, url \in {UrlPage, UrlBroken} : ScrapeArticle(p, url)
  \/ \E p \in Requests, urls \in BatchUrls : ScrapeBatch(p, urls)
  \/ \E p \in Requests : CheckRobotsTxt(p)
  \/ \E p \in Requests : DelayElapsed(p)
  \/ \E p \in Requests, ok \in BOOLEAN : FetchSettled(p, ok)
  \/ \E p \in Requests : RetryElapsed(p)
  \/ Tick

SpecScrape == Init /\ [][NextScrape]_vars

(***************************************************************************)
(* The /query route with its three requests in flight.  The handler starts *)
(* them, is suspended at await Promise.allSettled, and goes on when the    *)
(* last of them has settled; each of them is answered by its service at    *)
(* its own time from the tables as they are then.                          *)
(***************************************************************************)
\* the tagged articles under SpecJoin: for the query lithium the topic
\* index finds x and the keyword index finds y
JoinArticles ==
  { [id |-> IdX, title |-> Lithium, url |-> "u/x",
     labels |-> [topics |-> <<Lithium>>, keywords |-> <<supply>>]],
    [id |-> IdY, title |-> Lithium \o Sp \o Supply, url |-> "u/y",
     labels |-> [topics |-> <<Supply>>, keywords |-> <<lithium>>]] }

\* the array Promise.allSettled resolves to, filled in the order in which
\* the requests settled
allSettled_completionOrder(status, results, order) ==
  [i \in DOMAIN order |->
     [status |-> status[order[i]], articles |-> results[order[i]]]]

\* the array Promise.allSettled resolves to: the outcome of request k at
\* index k, whenever it settled
allSettled(status, results, order) ==
  [k \in DOMAIN Strategies |->
     [status |-> status[k], articles |-> results[k]]]

\* the answer of the service behind request k
StrategyOutcome(k, ns, tg, q, up) ==
  CASE k = 1 -> TopicStrategy(ns, q, up)
    [] k = 2 -> KeywordStrategy(ns, q, up)
    [] k = 3 -> RecentStrategy(tg, up)

\* POST /query up to await Promise.allSettled: the three axios.get are
\* sent
QueryStart(query, maxSources) ==
  /\ ~pending.active
  /\ pending' = [NoPending EXCEPT !.active = TRUE, !.query = query,
                   !.maxSources = maxSources,
                   !.status = [k \in DOMAIN Strategies |-> "pending"]]
  /\ UNCHANGED <<nodes, edges, nodeEdges, file, tagged, scraper, call>>

\* request k settles: fulfilled with the answer of its service, or
\* rejected
Settle(k, up) ==
  LET outcome == StrategyOutcome(k, nodes, tagged,
                                 join(extractKeywords(pending.query)), up)
  IN
  /\ pending.active
  /\ pending.status[k] = "pending"
  /\ pending' = [pending EXCEPT !.status[k] = outcome.status,
                                !.results[k] = outcome.articles,
                                !.order = Append(@, k)]
  /\ UNCHANGED <<nodes, edges, nodeEdges, file, tagged, scraper, call>>

\* the service behind request k keeps the connection open and never
\* answers; the axios.get has no timeout option
Hang(k) ==
  /\ pending.active
  /\ pending.status[k] = "pending"
  /\ pending' = [pending EXCEPT !.status[k] = "hung"]
  /\ UNCHANGED <<nodes, edges, nodeEdges, file, tagged, scraper, call>>

\* Promise.allSettled resolves when each of the three requests is
\* fulfilled or rejected; the handler aggregates, asks the language model
\* and responds
Respond(modelUp) ==
  LET rec(err, out) ==
        Call("query", NoId, NoId, NoId,
             [maxSources |-> pending.maxSources], pending.query, 0, FALSE,
             err, out)
  IN
  /\ pending.active
  /\ \A k \in DOMAIN Strategies : pending.status[k] \in {"fulfilled", "rejected"}
  /\ pending' = [pending EXCEPT !.active = FALSE]
  /\ call' = IF ~modelUp THEN rec("ModelError", <<>>)
             ELSE rec("none",
                      <<aggregate(pending.query, pending.maxSources,
                                  allSettled(pending.status, pending.results,
                                             pending.order))>>)
  /\ UNCHANGED <<nodes, edges, nodeEdges, file, tagged, scraper>>

\* a query over the labeller's store and the graph while they are filled
NextJoin ==
  \/ \E article \in JoinArticles : SaveTaggedArticle(article)
  \/ \E id \in AnswerIds : GraphAdd(id, TRUE)
  \/ QueryStart(lithium, 5)
  \/ \E k \in DOMAIN Strategies, up \in BOOLEAN : Settle(k, up)
  \/ \E k \in DOMAIN Strategies : Hang(k)
  \/ \E modelUp \in BOOLEAN : Respond(modelUp)

SpecJoin == Init /\ [][NextJoin]_vars

(***************************************************************************)
(* The store: claims C1 to C6, under Spec.                                 *)
(***************************************************************************)
AddedEdgeId == EdgeId(call.id, call.type, call.toId)
EdgeKeys == {"id", "from", "to", "type", "createdAt"}

\* C1: an addRelationship call whose fromId or toId is not in the node
\* table ends in NodeNotFound and leaves the node table, the edge table and
\* every adjacency set as they were.
C1_MissingEndpointRejected ==
  [][ (/\ call'.op = "addRelationship"
       /\ ~(call'.id \in NodeIds(nodes) /\ call'.toId \in NodeIds(nodes)))
      => (/\ call'.err = "NodeNotFound"
          /\ UNCHANGED <<nodes, edges, nodeEdges>>) ]_vars

\* C1 happens: a call with a missing endpoint was rejected in a graph that
\* holds an edge
C1_Witness ==
  /\ call.op = "addRelationship"
  /\ call.err = "NodeNotFound"
  /\ call.id \in NodeIds(nodes)
  /\ call.toId \notin NodeIds(nodes)
  /\ edges # EmptyMap

\* C2: the adjacency index and the edge table agree: every edge id in an
\* adjacency set is a key of the edge table, and every stored edge is
\* registered in the adjacency sets of both of its endpoints.
C2_IndexAgreesWithEdgeTable ==
  /\ \A n \in DOMAIN nodeEdges : nodeEdges[n] \subseteq DOMAIN edges
  /\ \A e \in DOMAIN edges :
       /\ edges[e].from \in DOMAIN nodeEdges
       /\ e \in nodeEdges[edges[e].from]
       /\ edges[e].to \in DOMAIN nodeEdges
       /\ e \in nodeEdges[edges[e].to]

\* C3: a successful addRelationship for a triple whose edge is already
\* stored and registered under both endpoints leaves the edge ids and both
\* adjacency sets as they were, and the stored edge carries exactly the
\* metadata of this call.
C3_ReAddOverwrites ==
  [][ (/\ call'.op = "addRelationship"
       /\ call'.err = "none"
       /\ AddedEdgeId' \in DOMAIN edges
       /\ AddedEdgeId' \in nodeEdges[call'.id]
       /\ AddedEdgeId' \in nodeEdges[call'.toId])
      => (/\ DOMAIN edges' = DOMAIN edges
          /\ Cardinality(DOMAIN edges') = Cardinality(DOMAIN edges)
          /\ nodeEdges'[call'.id] = nodeEdges[call'.id]
          /\ nodeEdges'[call'.toId] = nodeEdges[call'.toId]
          /\ DOMAIN edges'[AddedEdgeId'] = EdgeKeys \cup DOMAIN call'.meta
          /\ \A k \in DOMAIN call'.meta :
               edges'[AddedEdgeId'][k] = call'.meta[k]) ]_vars

\* C3 happens: an edge stored with strength 4 was added again with the
\* metadata of strength 5 and is the only edge
C3_Witness ==
  /\ call.op = "addRelationship"
  /\ call.err = "none"
  /\ call.existed
  /\ call.meta = [strength |-> 5, sharedTopics |-> <<li>>]
  /\ DOMAIN edges = {AddedEdgeId}

\* C4: addArticleNode for an id the node table holds stores the new node
\* data under that id and leaves the node ids, the edge table and the
\* adjacency index as they were: getRelationships returns for the node
\* every edge it returned before.
C4_UpsertKeepsEdges ==
  [][ (/\ call'.op = "addArticleNode"
       /\ call'.id \in NodeIds(nodes))
      => (/\ NodeOf(nodes', call'.id) = call'.out[1]
          /\ [i \in DOMAIN nodes' |-> nodes'[i].id]
               = [i \in DOMAIN nodes |-> nodes[i].id]
          /\ edges' = edges
          /\ nodeEdges' = nodeEdges
          /\ getRelationships(edges, nodeEdges, call'.id, <<>>)
               \subseteq getRelationships(edges', nodeEdges', call'.id, <<>>)) ]_vars

\* C4 happens: a node with an incident edge was added again with other
\* attributes
C4_Witness ==
  /\ call.op = "addArticleNode"
  /\ call.existed
  /\ NodeOf(nodes, call.id).title = "Lithium (rev)"
  /\ getRelationships(edges, nodeEdges, call.id, <<>>) # {}

\* C5: two distinct triples (fromId, relationshipType, toId) over nodes of
\* the table get two distinct edge ids.
C5_EdgeIdPerTriple ==
  \A f1 \in NodeIds(nodes), t1 \in NodeIds(nodes),
     f2 \in NodeIds(nodes), t2 \in NodeIds(nodes),
     ty1 \in {RELATES_TO, OtherType}, ty2 \in {RELATES_TO, OtherType} :
    <<f1, ty1, t1>> # <<f2, ty2, t2>>
      => EdgeId(f1, ty1, t1) # EdgeId(f2, ty2, t2)

\* C6: every stored edge's from and to are nodes of the table and are
\* exactly the nodes under whose adjacency sets the edge id is registered,
\* whatever metadata was passed.
C6_EdgeEndpointsAreItsNodes ==
  \A e \in DOMAIN edges :
    /\ edges[e].from \in NodeIds(nodes)
    /\ edges[e].to \in NodeIds(nodes)
    /\ {n \in DOMAIN nodeEdges : e \in nodeEdges[n]}
         = {edges[e].from, edges[e].to}

(***************************************************************************)
(* The score: claims C7 and C8, under SpecScore.                           *)
(***************************************************************************)
\* the case-folded set of a list's entries
Folded(arr) == {toLowerCase(arr[i]) : i \in DOMAIN arr}

\* the size of the case-folded set intersection of two lists
SharedCount(arr1, arr2) == Cardinality(Folded(arr1) \cap Folded(arr2))

\* labels.entities.f, empty without an entities record
EntityList(labels, f) ==
  IF "entities" \in DOMAIN labels THEN Field(labels.entities, f) ELSE <<>>

\* the sum of weight times set intersection over the five fields
WeightedIntersection(l1, l2) ==
    3 * SharedCount(Field(l1, "categories"), Field(l2, "categories"))
  + 2 * SharedCount(Field(l1, "topics"), Field(l2, "topics"))
  + 1 * SharedCount(Field(l1, "keywords"), Field(l2, "keywords"))
  + 2 * SharedCount(EntityList(l1, "people"), EntityList(l2, "people"))
  + 2 * SharedCount(EntityList(l1, "organizations"),
                    EntityList(l2, "organizations"))

\* C7: score(A, B) = score(B, A) for any two nodes, lists with duplicate
\* entries or entries differing in case only included.
C7_ScoreSymmetric ==
  call.op = "calculateSimilarity"
    => call.out[1] = calculateSimilarity(NodeOf(nodes, call.toId),
                                         NodeOf(nodes, call.id))

\* C8: score(A, B) is the sum over categories (3), topics (2), keywords
\* (1), entities.people (2) and entities.organizations (2) of the weight
\* times the size of the case-folded set intersection of the two lists.
C8_ScoreIsWeightedIntersection ==
  call.op = "calculateSimilarity"
    => call.out[1] = WeightedIntersection(NodeOf(nodes, call.id).labels,
                                          NodeOf(nodes, call.toId).labels)

(***************************************************************************)
(* The queries: claims C9 and C10, under SpecQuery.                        *)
(***************************************************************************)
\* the first n entries of a list (none for n <= 0)
FirstN(arr, n) == SubSeq(arr, 1, IF n > Len(arr) THEN Len(arr) ELSE n)

\* C9 as amended: findSimilarArticles never returns the queried id, returns
\* nothing for an id that is not in the table, and for a limit >= 0 returns
\* at most limit entries.
C9_FindSimilarExcludesSelf ==
  call.op = "findSimilarArticles"
    => /\ \A i \in DOMAIN call.out : call.out[i].articleId # call.id
       /\ call.id \notin NodeIds(nodes) => call.out = <<>>
       /\ call.limit >= 0 => Len(call.out) <= call.limit

\* C9 happens: a query for a node of the table was cut to its limit
C9_Witness ==
  /\ call.op = "findSimilarArticles"
  /\ call.id \in NodeIds(nodes)
  /\ call.limit = 2
  /\ Len(call.out) = 2
  /\ Len(Similarities(nodes, NodeOf(nodes, call.id), call.id)) > 2

\* C9 as claimed: for every limit the result has at most limit entries
\* (no list has fewer than none: for a limit below 0 the claim is read as
\* an empty result), never holds the queried id, and is empty for an
\* unknown id.
C9_AsClaimed ==
  call.op = "findSimilarArticles"
    => /\ \A i \in DOMAIN call.out : call.out[i].articleId # call.id
       /\ call.id \notin NodeIds(nodes) => call.out = <<>>
       /\ Len(call.out) <= (IF call.limit < 0 THEN 0 ELSE call.limit)

\* the relevance the claim gives a node: 2 when a topic contains the term,
\* else 1 when a category contains it, else 0 (excluded)
Relevance(node, term) ==
  IF \E i \in DOMAIN Field(node.labels, "topics") :
       includes(toLowerCase(Field(node.labels, "topics")[i]), toLowerCase(term))
  THEN 2
  ELSE IF \E i \in DOMAIN Field(node.labels, "categories") :
            includes(toLowerCase(Field(node.labels, "categories")[i]),
                     toLowerCase(term))
       THEN 1
       ELSE 0

\* the ranking the claim describes: the nodes of relevance 2 in table
\* order, then the nodes of relevance 1 in table order
ClaimedRanking(ns, term) ==
  SelectSeq(ns, LAMBDA n : Relevance(n, term) = 2)
    \o SelectSeq(ns, LAMBDA n : Relevance(n, term) = 1)

\* the returned list is the first n nodes of the claimed ranking, each
\* with its relevance
IsRankingCutTo(out, ns, term, n) ==
  LET want == FirstN(ClaimedRanking(ns, term), n)
  IN /\ Len(out) = Len(want)
     /\ \A i \in DOMAIN out :
          /\ out[i].articleId = want[i].id
          /\ out[i].relevance = Relevance(want[i], term)

\* C10 as amended: every entry queryByTopic returns has the relevance 2
\* (a topic contains the term) or 1 (only a category does), never 3, and
\* for a limit >= 0 the result is the first limit entries of the nodes
\* sorted by relevance descending, ties in table order.
C10_QueryByTopicRanking ==
  call.op = "queryByTopic"
    => /\ \A i \in DOMAIN call.out :
            /\ call.out[i].relevance \in {1, 2}
            /\ call.out[i].relevance
                 = Relevance(NodeOf(nodes, call.out[i].articleId), call.term)
       /\ call.limit >= 0
            => IsRankingCutTo(call.out, nodes, call.term, call.limit)

\* C10 happens: a node matched by a category only was ranked behind a
\* later node matched by a topic, a node matching in both got 2, and the
\* list was cut to its limit
C10_Witness ==
  /\ call.op = "queryByTopic"
  /\ call.limit = 2
  /\ Len(call.out) = 2
  /\ Len(ClaimedRanking(nodes, call.term)) > 2
  /\ \E i \in DOMAIN nodes, j \in DOMAIN nodes :
       /\ i < j
       /\ Relevance(nodes[i], call.term) = 1
       /\ Relevance(nodes[j], call.term) = 2
       /\ call.out[1].articleId = nodes[j].id
  /\ \E i \in DOMAIN nodes :
       /\ SomeIncludes(Field(nodes[i].labels, "topics"), toLowerCase(call.term))
       /\ SomeIncludes(Field(nodes[i].labels, "categories"),
                       toLowerCase(call.term))
       /\ \E k \in DOMAIN call.out :
            /\ call.out[k].articleId = nodes[i].id
            /\ call.out[k].relevance = 2

\* C10 as claimed: for every limit the result is the claimed ranking
\* truncated to limit.
C10_AsClaimed ==
  call.op = "queryByTopic"
    => IsRankingCutTo(call.out, nodes, call.term, call.limit)

(***************************************************************************)
(* clear and the statistics: claim C11, under Spec.                        *)
(***************************************************************************)
\* the statistics of the empty graph
ZeroStats ==
  [totalNodes |-> 0, totalEdges |-> 0, relationshipTypes |-> <<>>,
   nodesByCategory |-> <<>>, nodesBySentiment |-> <<>>]

\* C11: a clear step empties the node table, the edge table and the
\* adjacency index together, so that the statistics of the graph it leaves
\* are all zero and without keys, and a getGraphStats call that follows a
\* clear returns exactly those.
C11_ClearEmptiesTogether ==
  [][ /\ call'.op = "clear"
           => /\ nodes' = <<>>
              /\ edges' = EmptyMap
              /\ nodeEdges' = EmptyMap
              /\ getGraphStats(nodes', edges') = ZeroStats
      /\ (call.op = "clear" /\ call'.op = "getGraphStats")
           => call'.out = <<ZeroStats>> ]_vars

\* C11 happens: a graph holding a node and an edge was cleared
C11_Witness ==
  /\ call.op = "clear"
  /\ call.existed
  /\ getGraphStats(nodes, edges) = ZeroStats

(***************************************************************************)
(* The snapshot: claims C12 and C20, under SpecPersist.                    *)
(***************************************************************************)
\* the three tables as loadGraph returns them
Tables(ns, es, ne) == [nodes |-> ns, edges |-> es, nodeEdges |-> ne]

\* C12: the file a successful saveGraph leaves loads to the node table
\* (keys, values and order), the edge table and the adjacency index (each
\* entry the same set of edge ids) that were saved, in whatever order the
\* entries were written, and its stats count the nodes and edges saved; a
\* loadGraph that follows the save returns exactly those tables.
C12_SnapshotRoundTrip ==
  [][ /\ (call'.op = "saveGraph" /\ call'.out = <<TRUE>>)
           => /\ loadGraph(file') = <<Tables(nodes, edges, nodeEdges)>>
              /\ file'.json.stats.nodeCount = Len(nodes)
              /\ file'.json.stats.edgeCount = Cardinality(DOMAIN edges)
              /\ Len(file'.json.nodes) = Len(nodes)
              /\ Len(file'.json.edges) = Cardinality(DOMAIN edges)
      /\ (call.op = "saveGraph" /\ call.out = <<TRUE>> /\ call'.op = "loadGraph")
           => call'.out = <<Tables(nodes, edges, nodeEdges)>> ]_vars

\* C12 happens: a graph of two nodes and two edges was saved and loaded
\* back
C12_Witness ==
  /\ call.op = "loadGraph"
  /\ call.out = <<Tables(nodes, edges, nodeEdges)>>
  /\ Len(nodes) = 2
  /\ Cardinality(DOMAIN edges) = 2
  /\ \E k \in DOMAIN nodeEdges : Cardinality(nodeEdges[k]) = 2

(***************************************************************************)
(* The /query route: claims C13 to C17, under SpecAnswer.                  *)
(***************************************************************************)
\* the last call is a /query request that was answered with 200
Answered == call.op = "answerQuery" /\ call.err = "none"

\* the three retrieval requests of the last call, as they settled
AnswerSettled ==
  LET q == join(extractKeywords(call.term))
  IN <<TopicStrategy(nodes, q, call.meta.topicUp),
       KeywordStrategy(nodes, q, call.meta.keywordUp),
       RecentStrategy(tagged, call.meta.recentUp)>>

\* the articles the fulfilled requests returned
AnswerRetrieved == FulfilledArticles(AnswerSettled)

\* the article an entry of a retrieval result stands for
ArticleKey(a) == IF "id" \in DOMAIN a THEN a.id ELSE a.articleId

\* C13: whichever of the three retrieval requests fail, a request with a
\* query whose language-model call returns is answered with success; every
\* source is an article a fulfilled request returned; articles were
\* searched exactly when a fulfilled request returned one; and when all
\* three fail the sources are empty and totalArticlesSearched is 0.
C13_StrategyFailuresTolerated ==
  (call.op = "answerQuery" /\ call.term # <<>> /\ call.err # "ModelError")
    => /\ call.err = "none"
       /\ call.out[1].success
       /\ \A i \in DOMAIN call.out[1].sources :
            \E j \in DOMAIN AnswerRetrieved :
              /\ AnswerRetrieved[j].url = call.out[1].sources[i].url
              /\ AnswerRetrieved[j].title = call.out[1].sources[i].title
       /\ call.out[1].metadata.totalArticlesSearched <= Len(AnswerRetrieved)
       /\ (call.out[1].metadata.totalArticlesSearched = 0)
            <=> (AnswerRetrieved = <<>>)
       /\ (\A k \in 1..3 : AnswerSettled[k].status = "rejected")
            => /\ call.out[1].sources = <<>>
               /\ call.out[1].metadata.totalArticlesSearched = 0

\* C13 happens: the topic request and the recency request failed, the
\* keyword request returned an article, and it is a source
C13_Witness ==
  /\ Answered
  /\ AnswerSettled[1].status = "rejected"
  /\ AnswerSettled[2].status = "fulfilled"
  /\ AnswerSettled[3].status = "rejected"
  /\ AnswerSettled[2].articles # <<>>
  /\ call.out[1].sources # <<>>

\* C14: no article is in sources twice, and the merged list holds every
\* article that a fulfilled request returned exactly once:
\* totalArticlesSearched is the number of distinct articles returned.
C14_EachArticleOnce ==
  Answered
    => /\ \A i \in DOMAIN call.out[1].sources :
            \A j \in DOMAIN call.out[1].sources :
              i # j => call.out[1].sources[i].url # call.out[1].sources[j].url
       /\ call.out[1].metadata.totalArticlesSearched
            = Cardinality({ArticleKey(AnswerRetrieved[j]) :
                             j \in DOMAIN AnswerRetrieved})


\* the title of an entry is the text of the query, whatever the case
ExactTitle(a) == toLowerCase(a.title) = toLowerCase(call.term)

\* C15: when a fulfilled request returned an article whose title is the
\* text of the query and the request asks for at least one source, the
\* first entry of sources is an article with that title: it is ranked at
\* or above every article without the exact title.
C15_ExactTitleFirst ==
  (/\ Answered
   /\ call.meta.maxSources >= 1
   /\ \E j \in DOMAIN AnswerRetrieved : ExactTitle(AnswerRetrieved[j]))
    => /\ call.out[1].sources # <<>>
       /\ ExactTitle(call.out[1].sources[1])

\* the deduplicated articles of the last call
AnswerMerged == Dedup(AnswerRetrieved, {})

\* the number of pairs of an extracted keyword and an item of a list where
\* the item, lowercased, contains the keyword
Containments(keywords, items) ==
  Cardinality({p \in (DOMAIN keywords) \X (DOMAIN items) :
                 includes(toLowerCase(items[p[2]]), keywords[p[1]])})

\* the score the claim gives an article for a query
ClaimedScore(query, a) ==
  LET keywords == extractKeywords(query)
      labels == LabelsOf(a)
      Bonus(text, n) ==
        IF includes(toLowerCase(text), toLowerCase(query)) THEN n ELSE 0
  IN Bonus(a.title, 10)
     + 5 * Containments(keywords, <<a.title>>)
     + 3 * Containments(keywords, Field(labels, "topics"))
     + 2 * Containments(keywords, Field(labels, "categories"))
     + 1 * Containments(keywords, Field(labels, "keywords"))
     + (IF "summary" \in DOMAIN labels THEN Bonus(labels.summary, 4) ELSE 0)

\* a source is that deduplicated article
IsSourceOf(s, a) == s.id = IdOf(a) /\ s.url = a.url /\ s.title = a.title

\* C16: every source is a deduplicated article with the claimed score as
\* its relevanceScore, whatever relevance or matchCount a retrieval
\* reported for it; a deduplicated article whose claimed score is 0 is not
\* a source; and when maxSources is not below their number, every
\* deduplicated article with a claimed score above 0 is a source.
C16_SecondPassScore ==
  Answered
    => LET sources == call.out[1].sources
       IN /\ \A i \in DOMAIN sources :
               \E j \in DOMAIN AnswerMerged :
                 /\ IsSourceOf(sources[i], AnswerMerged[j])
                 /\ sources[i].relevanceScore
                      = ClaimedScore(call.term, AnswerMerged[j])
          /\ \A j \in DOMAIN AnswerMerged :
               ClaimedScore(call.term, AnswerMerged[j]) = 0
                 => \A i \in DOMAIN sources :
                      ~IsSourceOf(sources[i], AnswerMerged[j])
          /\ call.meta.maxSources >= Len(AnswerMerged)
               => \A j \in DOMAIN AnswerMerged :
                    ClaimedScore(call.term, AnswerMerged[j]) > 0
                      => \E i \in DOMAIN sources :
                           IsSourceOf(sources[i], AnswerMerged[j])

\* C16 happens: a source scored with the six rules (10 + 3 * 5 + 3 * 3 + 2
\* + 1 + 4), and an entry of the topic request, reported with relevance 2,
\* is a source with a score of 25
C16_Witness ==
  /\ Answered
  /\ \E i \in DOMAIN call.out[1].sources :
       call.out[1].sources[i].relevanceScore = 41
  /\ \E j \in DOMAIN AnswerMerged :
       /\ "relevance" \in DOMAIN AnswerMerged[j]
       /\ AnswerMerged[j].relevance = 2
       /\ \E i \in DOMAIN call.out[1].sources :
            /\ IsSourceOf(call.out[1].sources[i], AnswerMerged[j])
            /\ call.out[1].sources[i].relevanceScore = 25

\* the place of a source among the deduplicated articles
MergedIndex(s) ==
  CHOOSE j \in DOMAIN AnswerMerged : IsSourceOf(s, AnswerMerged[j])

\* sources is sorted by relevanceScore descending with equal scores in
\* dedup order, and the counts of metadata are those of sources and of the
\* deduplicated articles
IsRankedAndCounted ==
  LET sources == call.out[1].sources
      metadata == call.out[1].metadata
  IN /\ \A i \in DOMAIN sources : \A j \in DOMAIN sources :
          i < j => /\ sources[i].relevanceScore >= sources[j].relevanceScore
                   /\ sources[i].relevanceScore = sources[j].relevanceScore
                        => MergedIndex(sources[i]) < MergedIndex(sources[j])
     /\ metadata.sourcesUsed = Len(sources)
     /\ metadata.sourcesUsed <= metadata.totalArticlesSearched

\* C17 as amended: sources is ordered by score descending, equal scores in
\* dedup order; for maxSources >= 0 it holds at most maxSources entries;
\* sourcesUsed is its length and never exceeds totalArticlesSearched.
C17_SortedAndCut ==
  Answered
    => /\ IsRankedAndCounted
       /\ call.meta.maxSources >= 0
            => Len(call.out[1].sources) <= call.meta.maxSources

\* C17 happens: three articles were merged with the lower score first, the
\* two with equal scores are sources in dedup order, and the list was cut
\* to maxSources
C17_Witness ==
  /\ Answered
  /\ call.meta.maxSources = 1
  /\ Len(call.out[1].sources) = 1
  /\ Len(AnswerMerged) = 3
  /\ ClaimedScore(call.term, AnswerMerged[1])
       < ClaimedScore(call.term, AnswerMerged[2])
  /\ ClaimedScore(call.term, AnswerMerged[2])
       = ClaimedScore(call.term, AnswerMerged[3])
  /\ IsSourceOf(call.out[1].sources[1], AnswerMerged[2])

\* C17 as claimed: for every maxSources the list holds at most maxSources
\* entries (no list has fewer than none: for a maxSources below 0 the
\* claim is read as an empty list).
C17_AsClaimed ==
  Answered
    => /\ IsRankedAndCounted
       /\ Len(call.out[1].sources)
            <= (IF call.meta.maxSources < 0 THEN 0 ELSE call.meta.maxSources)

(***************************************************************************)
(* Ingestion: claim C18, under SpecIngest.                                 *)
(***************************************************************************)
\* the edges of es between the nodes a and b, in either direction
EdgesBetween(es, a, b) ==
  {e \in DOMAIN es : {es[e].from, es[e].to} = {a, b}}

\* C18: every RELATES_TO edge of a graph reached through ingestion has a
\* strength above 3, and an edge that a step of ingestion writes joins two
\* nodes whose similarity score is its strength: a pair with a score of 2
\* gets no edge.
C18_EdgesOnlyAboveThreshold ==
  [][ /\ \A e \in DOMAIN edges' :
           edges'[e].type = RELATES_TO => edges'[e].strength > 3
      /\ \A e \in DOMAIN edges' :
           (e \notin DOMAIN edges \/ edges'[e] # edges[e])
             => /\ call'.op \in {"graphAdd", "graphSync"}
                /\ edges'[e].strength
                     = calculateSimilarity(NodeOf(nodes', edges'[e].from),
                                           NodeOf(nodes', edges'[e].to))
      /\ call'.op \in {"graphAdd", "graphSync"}
           => \A i \in DOMAIN nodes' : \A j \in DOMAIN nodes' :
                (/\ calculateSimilarity(nodes'[i], nodes'[j]) = 2
                 /\ EdgesBetween(edges, nodes'[i].id, nodes'[j].id) = {})
                  => EdgesBetween(edges', nodes'[i].id, nodes'[j].id) = {}
    ]_vars

\* C18 happens: ingestion joined p and s, whose score is 5, and left p and
\* q, whose only overlap is the topic li in two cases, without an edge
C18_Witness ==
  /\ call.op \in {"graphAdd", "graphSync"}
  /\ {IdP, IdQ, IdS} \subseteq NodeIds(nodes)
  /\ calculateSimilarity(NodeOf(nodes, IdP), NodeOf(nodes, IdQ)) = 2
  /\ EdgesBetween(edges, IdP, IdQ) = {}
  /\ \E e \in EdgesBetween(edges, IdP, IdS) : edges[e].strength = 5

(***************************************************************************)
(* The edges of a node: claim C19, under Spec.                             *)
(***************************************************************************)
\* the stored edges that name the node as from or as to, of the type when
\* one is given
IncidentEdges(es, nodeId, typeFilter) ==
  {es[e] : e \in {x \in DOMAIN es :
                    /\ es[x].from = nodeId \/ es[x].to = nodeId
                    /\ typeFilter = <<>> \/ es[x].type = typeFilter}}

\* C19: getRelationships returns exactly the stored edges whose from or to
\* is the node, of the given type when there is one; for an id that is not
\* a node it returns no edge, and it never raises.
C19_NeighborEdges ==
  call.op = "getRelationships"
    => /\ call.err = "none"
       /\ call.out = IncidentEdges(edges, call.id, call.type)
       /\ call.id \notin NodeIds(nodes) => call.out = {}

(***************************************************************************)
(* Snapshots that cannot be loaded or saved: claim C20, under SpecPersist. *)
(***************************************************************************)
\* the snapshot file is missing, unreadable, unparseable or lacks a field
Malformed(f) ==
  \/ ~f.exists
  \/ ~f.readable
  \/ ~f.parses
  \/ ~(SnapshotFields \subseteq DOMAIN f.json)

\* C20: loadGraph never raises and returns null for a file that is
\* missing, unreadable, unparseable or lacks a field; saveGraph never
\* raises, and a save that did not leave the snapshot of the tables
\* returned false.
C20_LoadAndSaveFailGracefully ==
  /\ call.op = "loadGraph"
       => /\ call.err = "none"
          /\ Malformed(file) => call.out = <<>>
  /\ call.op = "saveGraph"
       => /\ call.err = "none"
          /\ call.out \in {<<TRUE>>, <<FALSE>>}
          /\ loadGraph(file) # <<Tables(nodes, edges, nodeEdges)>>
               => call.out = <<FALSE>>

(***************************************************************************)
(* The ranking of findSimilarArticles: claim C27, under SpecQuery.         *)
(***************************************************************************)
\* the places of the node table that hold a node similar to the node id
SimilarPlaces(ns, id) ==
  {i \in DOMAIN ns :
     /\ ns[i].id # id
     /\ calculateSimilarity(NodeOf(ns, id), ns[i]) > 0}

\* the place i of the table comes before the place j in the full ordering
\* of the nodes similar to id: by score descending, equal scores in table
\* order
RanksBefore(ns, id, i, j) ==
  LET si == calculateSimilarity(NodeOf(ns, id), ns[i])
      sj == calculateSimilarity(NodeOf(ns, id), ns[j])
  IN si > sj \/ (si = sj /\ i < j)

\* the table place of the k-th entry of the full ordering
PlaceOfRank(ns, id, k) ==
  CHOOSE i \in SimilarPlaces(ns, id) :
    Cardinality({j \in SimilarPlaces(ns, id) : RanksBefore(ns, id, j, i)})
      = k - 1

\* out is the first n entries of the full ordering, each with its score
IsSimilarCutTo(out, ns, id, n) ==
  LET total == Cardinality(SimilarPlaces(ns, id))
  IN /\ Len(out) = (IF n > total THEN total ELSE n)
     /\ \A k \in DOMAIN out :
          /\ out[k].articleId = ns[PlaceOfRank(ns, id, k)].id
          /\ out[k].similarity
               = calculateSimilarity(NodeOf(ns, id), ns[PlaceOfRank(ns, id, k)])

\* C27 as amended: every entry findSimilarArticles returns is a node with
\* a score above 0 against the queried node, the entries are sorted by
\* score descending with equal scores in table order, and for a limit >= 0
\* they are the first limit entries of the full ordering.
C27_FindSimilarRanking ==
  (call.op = "findSimilarArticles" /\ call.id \in NodeIds(nodes))
    => /\ \A k \in DOMAIN call.out :
            /\ call.out[k].similarity > 0
            /\ call.out[k].similarity
                 = calculateSimilarity(NodeOf(nodes, call.id),
                                       NodeOf(nodes, call.out[k].articleId))
       /\ \A k \in DOMAIN call.out : \A l \in DOMAIN call.out :
            k < l => call.out[k].similarity >= call.out[l].similarity
       /\ call.limit >= 0
            => IsSimilarCutTo(call.out, nodes, call.id, call.limit)

\* C27 happens: of three similar nodes the last of the table has the
\* highest score and is returned first, the two of equal score follow in
\* table order, and the list was cut to two
C27_Witness ==
  /\ call.op = "findSimilarArticles"
  /\ call.id \in NodeIds(nodes)
  /\ call.limit = 2
  /\ Len(call.out) = 2
  /\ Cardinality(SimilarPlaces(nodes, call.id)) = 3
  /\ \E i \in SimilarPlaces(nodes, call.id) :
       /\ \A j \in SimilarPlaces(nodes, call.id) : j <= i
       /\ call.out[1].articleId = nodes[i].id
       /\ call.out[1].similarity > call.out[2].similarity

\* C27 as claimed: for every limit the entries are the first limit entries
\* of the full ordering.
C27_AsClaimed ==
  (call.op = "findSimilarArticles" /\ call.id \in NodeIds(nodes))
    => IsSimilarCutTo(call.out, nodes, call.id, call.limit)

(***************************************************************************)
(* A second sync: claim C28, under SpecIngest.                             *)
(***************************************************************************)
\* the sync route run once more on the tables and the store as they are
SecondSync == SyncTables(nodes, edges, nodeEdges, tagged)

TaggedStores ==
  {<<>>} \cup {<<a>> : a \in AnswerArticles}
         \cup {s \in AnswerArticles \X AnswerArticles : s[1].id # s[2].id}

\* C25: a /query request changes no table of the graph, and when its three
\* retrieval requests are fulfilled its sources are those of every request
\* with the same query and maxSources on the same graph, whatever the
\* labeller's store holds.
C25_StatelessInGraph ==
  [][ call'.op = "answerQuery"
        => /\ UNCHANGED <<nodes, edges, nodeEdges>>
           /\ (/\ call'.err = "none"
               /\ call'.meta.topicUp
               /\ call'.meta.keywordUp
               /\ call'.meta.recentUp)
                => \A tg \in TaggedStores :
                     answerQuery(nodes', tg, call'.term, call'.meta.maxSources,
                                 TRUE, TRUE, TRUE).sources
                       = call'.out[1].sources ]_vars

(***************************************************************************)
(* Keyword extraction: claim C26, under SpecKeywords.                      *)
(***************************************************************************)
\* the places of s where a run of word characters starts
RunStarts(s) ==
  {i \in DOMAIN s : s[i] \in WordChars /\ (i = 1 \/ s[i - 1] \notin WordChars)}

\* the run of word characters that starts at the place i, lowercased
RunAt(s, i) ==
  LET last == CHOOSE j \in i..Len(s) :
                /\ \A k \in i..j : s[k] \in WordChars
                /\ j = Len(s) \/ s[j + 1] \notin WordChars
  IN toLowerCase(SubSeq(s, i, last))

\* the places where a surviving token starts: a run of more than two
\* characters that is no stop word
SurvivingStarts(s) ==
  {i \in RunStarts(s) : Len(RunAt(s, i)) > 2 /\ RunAt(s, i) \notin stopWords}

\* the k-th surviving token
SurvivingToken(s, k) ==
  RunAt(s, CHOOSE i \in SurvivingStarts(s) :
             Cardinality({j \in SurvivingStarts(s) : j < i}) = k - 1)

\* C26: the result of extractKeywords holds at most 10 tokens, none empty,
\* none of length <= 2 and no stop word, and it is the first 10 surviving
\* tokens of the lowercased query (all of them when there are fewer), in
\* their order.
C26_KeywordExtraction ==
  call.op = "extractKeywords"
    => /\ Len(call.out) <= 10
       /\ \A k \in DOMAIN call.out :
            /\ call.out[k] # <<>>
            /\ Len(call.out[k]) > 2
            /\ call.out[k] \notin stopWords
            /\ call.out[k] = SurvivingToken(call.term, k)
       /\ Len(call.out)
            = (IF Cardinality(SurvivingStarts(call.term)) > 10 THEN 10
               ELSE Cardinality(SurvivingStarts(call.term)))

\* C26 happens: a query with twelve surviving tokens, a stop word, a comma
\* and a capital was cut to its first ten
C26_Witness ==
  /\ call.op = "extractKeywords"
  /\ Cardinality(SurvivingStarts(call.term)) = 12
  /\ Len(call.out) = 10
  /\ \E i \in RunStarts(call.term) : RunAt(call.term, i) \in stopWords
  /\ \E i \in DOMAIN call.term : call.term[i] = ","
  /\ \E i \in DOMAIN call.term : call.term[i] = "S"

(***************************************************************************)
(* The edges of one ingestion pass: claim C29, under SpecFanout.           *)
(***************************************************************************)
\* the nodes a pass for the article id links it to: those of the five
\* first entries of the full ordering of its similar nodes that score
\* above 3
PassTargets(ns, id) ==
  LET similar == SimilarPlaces(ns, id)
  IN {ns[i].id : i \in
        {p \in similar :
           /\ calculateSimilarity(NodeOf(ns, id), ns[p]) > 3
           /\ Cardinality({j \in similar : RanksBefore(ns, id, j, p)}) < 5}}

\* the articles whose pass the last call ran
PassIds(c, tg) ==
  IF c.op = "graphAdd" THEN {c.id} ELSE TaggedIds(tg)

\* C29: a pass of the add route or of the sync route for an article
\* writes at most 5 edges that originate from it, all of them to its
\* targets; a node that scores above 3 and ranks below the fifth gets no
\* edge from the pass; and the add route's relationshipsCreated is the
\* number of edges it wrote.
C29_AtMostFivePerPass ==
  [][ (call'.op \in {"graphAdd", "graphSync"} /\ call'.err = "none")
        => /\ \A id \in PassIds(call', tagged') :
                LET written == {e \in DOMAIN edges' :
                                  /\ edges'[e].from = id
                                  /\ e \notin DOMAIN edges
                                       \/ edges'[e] # edges[e]}
                    targets == PassTargets(nodes', id)
                IN /\ Cardinality(written) <= 5
                   /\ Cardinality(targets) <= 5
                   /\ \A e \in written : edges'[e].to \in targets
                   /\ \A t \in targets :
                        /\ EdgeId(id, RELATES_TO, t) \in DOMAIN edges'
                        /\ edges'[EdgeId(id, RELATES_TO, t)].from = id
                        /\ edges'[EdgeId(id, RELATES_TO, t)].to = t
           /\ call'.op = "graphAdd"
                => call'.out[1].relationshipsCreated
                     = Cardinality(PassTargets(nodes', call'.id))
    ]_vars

\* C29 happens: the add route ran for p while six nodes scored above 3
\* against it, reported 5 relationships, and left one of the six without
\* an edge from p
C29_Witness ==
  /\ call.op = "graphAdd"
  /\ call.err = "none"
  /\ call.id = IdP
  /\ Cardinality({i \in SimilarPlaces(nodes, IdP) :
                    calculateSimilarity(NodeOf(nodes, IdP), nodes[i]) > 3}) = 6
  /\ call.out[1].relationshipsCreated = 5
  /\ \E i \in SimilarPlaces(nodes, IdP) :
       EdgeId(IdP, RELATES_TO, nodes[i].id) \notin DOMAIN edges

(***************************************************************************)
(* The scraper: claims C21 and C30, under SpecScrape.                      *)
(***************************************************************************)
\* C21: any two page fetches through the one ArticleScraper start at
\* least requestDelay apart, also when two requests are inside
\* respectfulDelay at the same time.
C21_FetchesSpaced == scraper.spacing >= requestDelay

\* C30: fetchUrl attempts a url at most maxRetries + 1 times; no scraper
\* request throws; every request in flight can go on (its download
\* settles, its timer fires or time passes) until the clock stops; the
\* results of a request are one per url in the order of the urls, success
\* or failure, and a finished request has a result for every url.
C30_ScrapeTerminates ==
  /\ \A p \in Requests :
       LET r == scraper.requests[p] IN
       /\ r.attempts <= maxRetries + 1
       /\ r.pc # "thrown"
       /\ Len(r.results) <= Len(r.urls)
       /\ \A i \in DOMAIN r.results :
            /\ r.results[i].url = r.urls[i]
            /\ r.results[i].success \in BOOLEAN
       /\ r.pc = "done" => Len(r.results) = Len(r.urls)
  /\ (/\ \E p \in Requests :
           scraper.requests[p].pc \in {"robots", "delay", "fetching", "retry"}
      /\ scraper.now < MaxTime)
       => ENABLED NextScrape

(***************************************************************************)
(* The sync route and other requests: claim C24, under SpecIngest.         *)
(***************************************************************************)
\* the edge the pass of id writes to target t is in the edge table and in
\* the adjacency sets of both ends
Linked(es, ne, id, t) ==
  LET edgeId == EdgeId(id, RELATES_TO, t) IN
  /\ edgeId \in DOMAIN es
  /\ edgeId \in ne[id]
  /\ edgeId \in ne[t]

\* C24 as amended: the state a sync leaves, which is the first state that
\* shows its nodes to another request, holds every synced article as a
\* node together with every edge the sync writes for it; no state shows
\* the nodes of a sync without its edges.
C24_SyncLinksInOneStep ==
  (call.op = "graphSync" /\ call.err = "none")
    => \A id \in TaggedIds(tagged) :
         /\ id \in NodeIds(nodes)
         /\ \A t \in PassTargets(nodes, id) : Linked(edges, nodeEdges, id, t)

\* C24 happens: a sync of p and s into the empty graph left the two nodes
\* and the edges between them in both directions
C24_Witness ==
  /\ call.op = "graphSync"
  /\ call.err = "none"
  /\ call.out[1].nodesAdded = 2
  /\ NodeIds(nodes) = {IdP, IdS}
  /\ PassTargets(nodes, IdP) = {IdS}
  /\ DOMAIN edges = {EdgeId(IdP, RELATES_TO, IdS), EdgeId(IdS, RELATES_TO, IdP)}

\* C24 as claimed: the step in which the nodes of a sync appear writes no
\* edge, so that the nodes are visible before the edges are
C24_AsClaimed ==
  [][ (/\ call'.op = "graphSync"
       /\ call'.err = "none"
       /\ NodeIds(nodes') # NodeIds(nodes))
        => edges' = edges ]_vars

(***************************************************************************)
(* The join of the three retrievals: claims C22 and C23, under SpecJoin.   *)
(***************************************************************************)
\* the articles request k of the query in flight contributed
Contributed(k) ==
  IF pending.status[k] = "fulfilled" THEN pending.results[k] ELSE <<>>

\* C22: the /query route has responded only when each of its three
\* requests was fulfilled or rejected, and its sources and counts are
\* those of the articles of the fulfilled requests merged in the order
\* topic, keyword, recency, in whatever order the requests settled.
C22_SettleAllJoin ==
  (call.op = "query" /\ ~pending.active)
    => /\ \A k \in DOMAIN Strategies :
            pending.status[k] \in {"fulfilled", "rejected"}
       /\ call.err = "none"
            => LET merged == Dedup(Contributed(1) \o Contributed(2)
                                     \o Contributed(3), {})
                   ranked == slice0(rankArticlesByRelevance(pending.query,
                                                            merged),
                                    pending.maxSources)
               IN /\ call.out[1].sources
                       = [i \in DOMAIN ranked |-> SourceOf(ranked[i])]
                  /\ call.out[1].metadata.totalArticlesSearched = Len(merged)

\* C22 happens: the recency request settled first and the topic request
\* last, the topic index had found x and the keyword index y, and the
\* response holds the entry of the topic index
C22_Witness ==
  /\ call.op = "query"
  /\ call.err = "none"
  /\ ~pending.active
  /\ pending.order = <<3, 2, 1>>
  /\ Len(Contributed(1)) = 1
  /\ Len(Contributed(2)) = 1
  /\ Contributed(1)[1].url = "u/x"
  /\ Contributed(2)[1].url = "u/y"
  /\ Len(Contributed(3)) = 2
  /\ \E i \in DOMAIN call.out[1].sources :
       /\ call.out[1].sources[i].id = Undefined
       /\ call.out[1].sources[i].url = "u/x"

\* C23: a request that never completes counts as failed, so that a query
\* none of whose requests can still settle goes on to aggregate and
\* respond.
C23_HungCountsAsFailed ==
  (pending.active /\ \A k \in DOMAIN Strategies : pending.status[k] # "pending")
    => ENABLED (\E modelUp \in BOOLEAN : Respond(modelUp))

=============================================================================
